---- MODULE Spec2Model ----
(***************************************************************************)
(* Verification model of the NTR viewer's parsing pipeline:                *)
(*   lexNtr (ntr/lexer.ts, shared/iter.ts)  ->  parseNtr (ntr/parser.ts)   *)
(*   ->  validateNtrFile (ntr/validation.ts).                              *)
(*                                                                         *)
(* Text is modelled character by character: a JavaScript string is a      *)
(* sequence of one-character strings.  A JavaScript number is a record     *)
(* [nk, m, e]: nk = "fin" stands for m * 10^e (normalised), nk = "inf" for *)
(* +/-Infinity (sign in m) and nk = "nan" for NaN.  An optional value is   *)
(* an absent record key; a value that may be undefined while it is passed  *)
(* around is a sequence of length 0 (undefined) or 1.                      *)
(***************************************************************************)
EXTENDS Integers, Sequences, FiniteSets, TLC

VARIABLES
    pc,                 \* position of the run
    id,                 \* parseNtr's id argument / the candidate's origin
    source,             \* parseNtr's source argument
    records,            \* lexNtr(source).records
    issues,             \* lexNtr(source).issues
    cursor,             \* index of the next record of the for-loop
    elements,           \* parseNtr's elements array
    collectedIssues,    \* parseNtr's collectedIssues array
    nominalDiameters,   \* parseNtr's nominalDiameters map
    result,             \* the Result returned by parseNtr
    candidate,          \* the argument given to validateNtrFile
    validation,         \* the Result returned by validateNtrFile
    revalidation,       \* the Result of validating validation.value again
    fault,              \* the part of the candidate that was made invalid
    file,               \* buildSceneGraph's file argument
    elementIndex,       \* index of the element file.elements.map is at
    points,             \* the points of that element resolved so far
    min,                \* the bounds builder's min (length 0 is null)
    max,                \* the bounds builder's max (length 0 is null)
    sceneElements,      \* the scene elements converted so far
    graph,              \* the SceneGraph returned by buildSceneGraph
    sceneOffset,        \* the renderer's sceneOffset
    bend,               \* the SceneBend given to createMeshesForElement
    arc,                \* createBendMesh's locals at its return
    meshes,             \* the meshes createMeshesForElement returns
    state,              \* main.ts: state (filePath, graph, issues)
    lastFile,           \* localStorage: the remembered last file
    watched,            \* the path the backend's file watcher is set on
    disk,               \* the file system: the contents at each path
    events,             \* ntr-file-changed events not yet delivered
    reads,              \* the loadNtrFileAtPath calls being awaited
    applied,            \* the last call of loadFileFromContents
    edits,              \* how many times the file system has changed
    started,            \* whether restoreLastFile has been called
    enabled,            \* telemetry.ts: enabled
    stored,             \* localStorage: the item at STORAGE_KEY
    storageUp,          \* whether localStorage can be accessed
    emitted,            \* how many telemetry events console.info has got
    call                \* what the calls made to telemetry.ts have done

parserVars == <<pc, id, source, records, issues, cursor, elements,
                collectedIssues, nominalDiameters, result, candidate,
                validation, revalidation, fault>>

viewerVars == <<file, elementIndex, points, min, max, sceneElements, graph,
                sceneOffset, bend, arc, meshes>>

appVars == <<state, lastFile, watched, disk, events, reads, applied, edits,
             started, enabled, stored, storageUp, emitted, call>>

vars == <<parserVars, viewerVars, appVars>>

----------------------------------------------------------------------------
(* JavaScript string primitives                                            *)

\* White space as String.prototype.trim and the RegExp class \s see it.
WhiteSpace == {" ", "\t", "\n", "\r"}

Digits == {"0", "1", "2", "3", "4", "5", "6", "7", "8", "9"}

DigitValue(c) ==
    CASE c = "0" -> 0 [] c = "1" -> 1 [] c = "2" -> 2 [] c = "3" -> 3
      [] c = "4" -> 4 [] c = "5" -> 5 [] c = "6" -> 6 [] c = "7" -> 7
      [] c = "8" -> 8 [] c = "9" -> 9

\* The positions of s whose character is in S.
positionsIn(s, S) == {i \in 1..Len(s) : s[i] \in S}

\* The least and the greatest member of a set of positions; 0 when empty.
least(P) == IF P = {} THEN 0 ELSE CHOOSE i \in P : \A j \in P : i <= j
greatest(P) == IF P = {} THEN 0 ELSE CHOOSE i \in P : \A j \in P : j <= i

\* s from its first character that is no white space on.
trimStart(s) ==
    IF \A i \in 1..Len(s) : s[i] \in WhiteSpace THEN <<>>
    ELSE SubSeq(s, least(1..Len(s) \ positionsIn(s, WhiteSpace)), Len(s))

\* s up to its last character that is no white space.
trimEnd(s) ==
    SubSeq(s, 1, greatest(1..Len(s) \ positionsIn(s, WhiteSpace)))

trim(s) == trimEnd(trimStart(s))

toUpperCaseChar(c) ==
    CASE c = "a" -> "A" [] c = "b" -> "B" [] c = "c" -> "C" [] c = "d" -> "D"
      [] c = "e" -> "E" [] c = "f" -> "F" [] c = "g" -> "G" [] c = "h" -> "H"
      [] c = "i" -> "I" [] c = "j" -> "J" [] c = "k" -> "K" [] c = "l" -> "L"
      [] c = "m" -> "M" [] c = "n" -> "N" [] c = "o" -> "O" [] c = "p" -> "P"
      [] c = "q" -> "Q" [] c = "r" -> "R" [] c = "s" -> "S" [] c = "t" -> "T"
      [] c = "u" -> "U" [] c = "v" -> "V" [] c = "w" -> "W" [] c = "x" -> "X"
      [] c = "y" -> "Y" [] c = "z" -> "Z" [] OTHER -> c

toUpperCase(s) == [i \in 1..Len(s) |-> toUpperCaseChar(s[i])]

\* s.indexOf(c), 1-based; 0 when c does not occur (JavaScript's -1).
indexOf(s, c) == least(positionsIn(s, {c}))

\* s.split(c): the pieces between the occurrences of c; never empty.
RECURSIVE split(_, _)
split(s, c) ==
    LET i == indexOf(s, c)
    IN  IF i = 0 THEN <<s>>
        ELSE <<SubSeq(s, 1, i - 1)>> \o split(SubSeq(s, i + 1, Len(s)), c)

startsWith(s, p) == Len(s) >= Len(p) /\ SubSeq(s, 1, Len(p)) = p

----------------------------------------------------------------------------
(* JavaScript numbers and Number.parseFloat                                *)

NaN == [nk |-> "nan", m |-> 0, e |-> 0]
Infinity(sign) == [nk |-> "inf", m |-> sign, e |-> 0]

\* Largest decimal exponent of a finite double (Number.MAX_VALUE ~ 1.8e308).
MaxDecimalExponent == 308

RECURSIVE digitCount(_)
digitCount(n) == IF n < 10 THEN 1 ELSE 1 + digitCount(n \div 10)

RECURSIVE normalize(_, _)
normalize(m, e) ==
    IF m = 0 THEN [nk |-> "fin", m |-> 0, e |-> 0]
    ELSE IF m % 10 = 0 THEN normalize(m \div 10, e + 1)
    ELSE [nk |-> "fin", m |-> m, e |-> e]

\* sign * mag * 10^e as a number; magnitudes beyond the double range are
\* Infinity.
makeNumber(sign, mag, e) ==
    IF mag # 0 /\ digitCount(mag) + e > MaxDecimalExponent + 1
    THEN Infinity(sign)
    ELSE normalize(sign * mag, e)

isNaN(n) == n.nk = "nan"
isFinite(n) == n.nk = "fin"
isInteger(n) == n.nk = "fin" /\ n.e >= 0

RECURSIVE digitPrefix(_)
digitPrefix(s) ==
    IF s # <<>> /\ Head(s) \in Digits
    THEN <<Head(s)>> \o digitPrefix(Tail(s))
    ELSE <<>>

RECURSIVE digitsValue(_, _)
digitsValue(ds, acc) ==
    IF ds = <<>> THEN acc
    ELSE digitsValue(Tail(ds), 10 * acc + DigitValue(Head(ds)))

InfinityLiteral == <<"I", "n", "f", "i", "n", "i", "t", "y">>

\* Number.parseFloat: leading white space is skipped, the longest prefix that
\* is a decimal literal is converted and whatever follows it is ignored; NaN
\* when there is no such prefix.  The stages: sign, integer digits, fraction
\* digits, exponent.
signOf(s) == IF s # <<>> /\ Head(s) = "-" THEN -1 ELSE 1
afterSign(s) == IF s # <<>> /\ Head(s) \in {"-", "+"} THEN Tail(s) ELSE s

fractionDigits(s) ==
    IF s # <<>> /\ Head(s) = "." THEN digitPrefix(Tail(s)) ELSE <<>>
afterFraction(s) ==
    IF s # <<>> /\ Head(s) = "."
    THEN SubSeq(s, Len(digitPrefix(Tail(s))) + 2, Len(s))
    ELSE s

\* The value of an exponent part e[+-]digits at the head of s, else 0.
exponentValue(s) ==
    IF s # <<>> /\ Head(s) \in {"e", "E"}
    THEN signOf(Tail(s)) * digitsValue(digitPrefix(afterSign(Tail(s))), 0)
    ELSE 0

parseDecimal(sign, ip, fp, rest) ==
    IF ip = <<>> /\ fp = <<>> THEN NaN
    ELSE makeNumber(sign, digitsValue(ip \o fp, 0),
                    exponentValue(rest) - Len(fp))

parseMantissa(sign, ip, rest) ==
    parseDecimal(sign, ip, fractionDigits(rest), afterFraction(rest))

parseUnsigned(sign, s) ==
    IF startsWith(s, InfinityLiteral) THEN Infinity(sign)
    ELSE parseMantissa(sign, digitPrefix(s),
                       SubSeq(s, Len(digitPrefix(s)) + 1, Len(s)))

parseSigned(s) == parseUnsigned(signOf(s), afterSign(s))

parseFloat(str) == parseSigned(trimStart(str))

----------------------------------------------------------------------------
(* shared/iter.ts                                                          *)

COMMENT_MARKER == "!"

\* source.replace(/\r\n/g, "\n")
\* Every CR that a LF follows is dropped.
replaceCrLf(s) ==
    LET kept == SelectSeq([i \in 1..Len(s) |-> i],
                          LAMBDA i : ~(/\ s[i] = "\r"
                                       /\ i < Len(s)
                                       /\ s[i + 1] = "\n"))
    IN  [k \in 1..Len(kept) |-> s[kept[k]]]

\* enumerateLines, were the lines numbered from 0.
enumerateLinesFromZero(src) ==
    LET rawLines == split(replaceCrLf(src), "\n")
    IN  [i \in 1..Len(rawLines) |->
            [lineNumber |-> i - 1, content |-> rawLines[i]]]

enumerateLines(src) ==
    LET rawLines == split(replaceCrLf(src), "\n")
    IN  [i \in 1..Len(rawLines) |-> [lineNumber |-> i, content |-> rawLines[i]]]

stripInlineComment(line) ==
    LET commentIndex == indexOf(line, COMMENT_MARKER)
    IN  IF commentIndex = 0 THEN line ELSE SubSeq(line, 1, commentIndex - 1)

\* The body of the loop of splitTokens: the state after the character;
\* quoteChar = "" is null.
splitTokensStep(st, char) ==
    IF char \in {"'", "\""} /\ (st.quoteChar = "" \/ st.quoteChar = char)
    THEN [tokens    |-> st.tokens,
          current   |-> Append(st.current, char),
          inQuote   |-> ~st.inQuote,
          quoteChar |-> IF st.inQuote THEN "" ELSE char]
    ELSE IF char \in WhiteSpace /\ ~st.inQuote
    THEN IF Len(st.current) > 0
         THEN [st EXCEPT !.tokens = Append(st.tokens, st.current),
                         !.current = <<>>]
         ELSE st
    ELSE [st EXCEPT !.current = Append(st.current, char)]

\* The loop of splitTokens over the characters lo..hi, one after the other.
\* The range is halved, and the state after the first half is worked out
\* before the second half is entered, to keep the evaluation shallow.
RECURSIVE splitTokensOver(_, _, _, _)
splitTokensOver(line, st, lo, hi) ==
    IF lo > hi THEN st
    ELSE IF lo = hi THEN splitTokensStep(st, line[lo])
    ELSE LET half == splitTokensOver(line, st, lo, (lo + hi) \div 2)
         IN  IF half.inQuote \in BOOLEAN
             THEN splitTokensOver(line, half, (lo + hi) \div 2 + 1, hi)
             ELSE half

splitTokens(line) ==
    LET last == splitTokensOver(line,
                                [tokens |-> <<>>, current |-> <<>>,
                                 inQuote |-> FALSE, quoteChar |-> ""],
                                1, Len(line))
    IN  IF Len(last.current) > 0 THEN Append(last.tokens, last.current)
        ELSE last.tokens

RECURSIVE tokenizeFrom(_, _)
tokenizeFrom(lines, i) ==
    IF i > Len(lines) THEN <<>>
    ELSE LET line           == lines[i]
             withoutComment == stripInlineComment(line.content)
             trimmed        == trim(withoutComment)
             tokens         == splitTokens(trimmed)
         IN  IF Len(trimmed) = 0 \/ Len(tokens) = 0
             THEN tokenizeFrom(lines, i + 1)
             ELSE <<[lineNumber |-> line.lineNumber,
                     content    |-> line.content,
                     tokens     |-> tokens]>> \o tokenizeFrom(lines, i + 1)

tokenize(lines) == tokenizeFrom(lines, 1)

----------------------------------------------------------------------------
(* ntr/lexer.ts                                                            *)

COMMENT_RECORD == <<"C">>

\* A ParseIssue.  The message is the template's fixed text (tpl) and the
\* value interpolated into it (arg).
createIssue(code, lineNumber, tpl, arg, severity) ==
    [severity   |-> severity,
     message    |-> [tpl |-> tpl, arg |-> arg],
     recordCode |-> code,
     lineNumber |-> lineNumber]

normalizeValue(value) ==
    LET trimmed   == trim(value)
        firstChar == trimmed[1]
        lastChar  == trimmed[Len(trimmed)]
    IN  IF Len(trimmed) = 0 THEN [value |-> <<>>, quoted |-> FALSE]
        ELSE IF (firstChar = "'" /\ lastChar = "'")
                \/ (firstChar = "\"" /\ lastChar = "\"")
        THEN [value  |-> SubSeq(trimmed, 2, Len(trimmed) - 1),
              quoted |-> TRUE]
        ELSE [value |-> trimmed, quoted |-> FALSE]

\* parseField that keeps a token without "=" as a field without a value.
parseFieldKeepingAll(token, recordCode, lineNumber) ==
    [field  |-> <<[key        |-> toUpperCase(trim(token)),
                   value      |-> <<>>,
                   rawValue   |-> <<>>,
                   quoted     |-> FALSE,
                   lineNumber |-> lineNumber]>>,
     issues |-> IF indexOf(token, "=") # 0 THEN <<>>
                ELSE <<createIssue(recordCode, lineNumber,
                                   "Expected key=value pair, received", token,
                                   "error")>>]

\* parseField: the field made from the token (field, length 0 or 1) and the
\* issues it pushes.
parseField(token, recordCode, lineNumber) ==
    LET equalsIndex == indexOf(token, "=")
        key         == trim(SubSeq(token, 1, equalsIndex - 1))
        rawValue    == SubSeq(token, equalsIndex + 1, Len(token))
        nv          == normalizeValue(rawValue)
    IN  IF equalsIndex = 0
        THEN [field  |-> <<>>,
              issues |-> <<createIssue(recordCode, lineNumber,
                             "Expected key=value pair, received", token,
                             "error")>>]
        ELSE IF Len(key) = 0
        THEN [field  |-> <<>>,
              issues |-> <<createIssue(recordCode, lineNumber,
                             "Missing field key", <<>>, "error")>>]
        ELSE [field  |-> <<[key        |-> toUpperCase(key),
                            value      |-> nv.value,
                            rawValue   |-> trim(rawValue),
                            quoted     |-> nv.quoted,
                            lineNumber |-> lineNumber]>>,
              issues |-> <<>>]

\* The inner loop of lexNtr over the tokens after the record code.
RECURSIVE parseFields(_, _, _, _)
parseFields(rest, i, recordCode, lineNumber) ==
    IF i > Len(rest) THEN [fields |-> <<>>, issues |-> <<>>]
    ELSE LET one  == parseField(rest[i], recordCode, lineNumber)
             more == parseFields(rest, i + 1, recordCode, lineNumber)
         IN  [fields |-> one.field \o more.fields,
              issues |-> one.issues \o more.issues]

\* The outer loop of lexNtr over the tokenized lines.
RECURSIVE lexLines(_, _)
lexLines(tokenized, i) ==
    IF i > Len(tokenized) THEN [records |-> <<>>, issues |-> <<>>]
    ELSE LET line       == tokenized[i]
             codeToken  == Head(line.tokens)
             rest       == Tail(line.tokens)
             recordCode == toUpperCase(trim(codeToken))
             parsed     == parseFields(rest, 1, recordCode, line.lineNumber)
             more       == lexLines(tokenized, i + 1)
         IN  IF Len(codeToken) = 0 \/ recordCode = COMMENT_RECORD
             THEN more
             ELSE [records |-> <<[code       |-> recordCode,
                                  lineNumber |-> line.lineNumber,
                                  raw        |-> line.content,
                                  fields     |-> parsed.fields]>>
                                \o more.records,
                   issues  |-> parsed.issues \o more.issues]

lexNtr(src) == lexLines(tokenize(enumerateLines(src)), 1)

----------------------------------------------------------------------------
(* shared/result.ts and ntr/types.ts                                       *)

ok(value) == [ok |-> TRUE, value |-> value]
err(error) == [ok |-> FALSE, error |-> error]

asIdentifier(value) == trim(value)
asNodeId(value) == asIdentifier(value)
asMaterialCode(value) == trim(value)
asNominalDiameterCode(value) == trim(value)
asLoadCaseCode(value) == trim(value)
asPipelineCode(value) == trim(value)
asReferenceCode(value) == trim(value)
asComponentTag(value) == trim(value)
asProfileTypeCode(value) == trim(value)
asNormCode(value) == trim(value)
asSeriesCode(value) == trim(value)
asScheduleCode(value) == trim(value)
asString(value) == trim(value)
asMillimeters(value) == value
asKilograms(value) == value

createCoordinatePoint(position) == [kind |-> "coordinate", position |-> position]
createNamedPoint(nodeId) == [kind |-> "named", id |-> asNodeId(nodeId)]

----------------------------------------------------------------------------
(* ntr/parser.ts: field helpers                                            *)

\* The record codes and field keys the parser names.
CODE_RO   == <<"R", "O">>
CODE_BOG  == <<"B", "O", "G">>
CODE_TEE  == <<"T", "E", "E">>
CODE_ARM  == <<"A", "R", "M">>
CODE_PROF == <<"P", "R", "O", "F">>
CODE_RED  == <<"R", "E", "D">>
CODE_DN   == <<"D", "N">>
CODE_GEN  == <<"G", "E", "N">>
CODE_AUFT == <<"A", "U", "F", "T">>
CODE_TEXT == <<"T", "E", "X", "T">>
CODE_LAST == <<"L", "A", "S", "T">>
CODE_IS   == <<"I", "S">>
CODE_VALIDATION == <<"V", "A", "L", "I", "D", "A", "T", "I", "O", "N">>

ElementCodes  == {CODE_RO, CODE_BOG, CODE_TEE, CODE_ARM, CODE_PROF, CODE_RED}
MetadataCodes == {CODE_GEN, CODE_AUFT, CODE_TEXT, CODE_LAST, CODE_IS}

KEY_P1     == <<"P", "1">>
KEY_P2     == <<"P", "2">>
KEY_PT     == <<"P", "T">>
KEY_PM     == <<"P", "M">>
KEY_PH1    == <<"P", "H", "1">>
KEY_PH2    == <<"P", "H", "2">>
KEY_PA1    == <<"P", "A", "1">>
KEY_PA2    == <<"P", "A", "2">>
KEY_DN     == <<"D", "N">>
KEY_DN1    == <<"D", "N", "1">>
KEY_DN2    == <<"D", "N", "2">>
KEY_DNH    == <<"D", "N", "H">>
KEY_DNA    == <<"D", "N", "A">>
KEY_NAME   == <<"N", "A", "M", "E">>
KEY_DA     == <<"D", "A">>
KEY_S      == <<"S">>
KEY_MAT    == <<"M", "A", "T">>
KEY_LAST   == <<"L", "A", "S", "T">>
KEY_TEXT   == <<"T", "E", "X", "T">>
KEY_REF    == <<"R", "E", "F">>
KEY_LTG    == <<"L", "T", "G">>
KEY_BTK    == <<"B", "T", "K">>
KEY_NORM   == <<"N", "O", "R", "M">>
KEY_SERIES == <<"S", "E", "R", "I", "E", "S">>
KEY_SCHED  == <<"S", "C", "H", "E", "D">>
KEY_TYP    == <<"T", "Y", "P">>
KEY_GEW    == <<"G", "E", "W">>
KEY_ACHSE  == <<"A", "C", "H", "S", "E">>
KEY_RI     == <<"R", "I">>

\* The last field of the record with each key (Map.set overwrites).
createFieldMap(record) ==
    LET keys == {record.fields[i].key : i \in 1..Len(record.fields)}
        last(k) == CHOOSE i \in 1..Len(record.fields) :
                       /\ record.fields[i].key = k
                       /\ \A j \in (i + 1)..Len(record.fields) :
                              record.fields[j].key # k
    IN  [k \in keys |-> record.fields[last(k)]]

snapshotRawFields(map) == [k \in DOMAIN map |-> map[k].rawValue]

\* map.get(key): length 0 when undefined.
mapGet(map, key) == IF key \in DOMAIN map THEN <<map[key]>> ELSE <<>>

\* requireField, were a missing key taken for a key with an empty value.
requireFieldOrEmpty(record, map, key) ==
    IF key \notin DOMAIN map
    THEN ok([key |-> key, value |-> <<>>, rawValue |-> <<>>,
             quoted |-> FALSE, lineNumber |-> record.lineNumber])
    ELSE ok(map[key])

requireField(record, map, key) ==
    IF key \notin DOMAIN map
    THEN err(createIssue(record.code, record.lineNumber,
                         "Missing required field", key, "error"))
    ELSE ok(map[key])

parseNumericValue(record, key, fld) ==
    LET numeric == parseFloat(fld.value)
    IN  IF isNaN(numeric)
        THEN err(createIssue(record.code, fld.lineNumber,
                             "Invalid numeric value for field", key, "error"))
        ELSE ok(numeric)

requireNumericField(record, map, key) ==
    LET fld == requireField(record, map, key)
    IN  IF ~fld.ok THEN fld ELSE parseNumericValue(record, key, fld.value)

optionalNumericField(record, map, key) ==
    IF key \notin DOMAIN map THEN ok(<<>>)
    ELSE LET r == parseNumericValue(record, key, map[key])
         IN  IF r.ok THEN ok(<<r.value>>) ELSE r

\* parseCoordinate: length 0 when undefined.
\* The end of parseCoordinate, on the numbers of the three pieces.
coordinateOf(numbers) ==
    IF \E i \in 1..3 : isNaN(numbers[i]) THEN <<>>
    ELSE <<[x |-> numbers[1], y |-> numbers[2], z |-> numbers[3]]>>

parseCoordinate(value) ==
    LET pieces == split(value, ",")
    IN  IF Len(pieces) # 3 THEN <<>>
        ELSE coordinateOf([i \in 1..3 |-> parseFloat(trim(pieces[i]))])

\* The quoted branch of parsePointField, on what parseCoordinate returned.
coordinatePointOf(record, key, fld, coordinates) ==
    IF coordinates = <<>>
    THEN err(createIssue(record.code, fld.lineNumber,
                         "Invalid coordinate for field", key, "error"))
    ELSE ok(createCoordinatePoint(coordinates[1]))

\* parsePointField, were an unquoted value that reads as a coordinate
\* taken for one.
parsePointFieldLenient(record, key, fld) ==
    IF fld.quoted \/ parseCoordinate(fld.value) # <<>>
    THEN coordinatePointOf(record, key, fld, parseCoordinate(fld.value))
    ELSE IF trim(fld.value) = <<>>
    THEN err(createIssue(record.code, fld.lineNumber,
                         "Missing coordinate value for", key, "error"))
    ELSE ok(createNamedPoint(fld.value))

parsePointField(record, key, fld) ==
    IF fld.quoted
    THEN coordinatePointOf(record, key, fld, parseCoordinate(fld.value))
    ELSE IF trim(fld.value) = <<>>
    THEN err(createIssue(record.code, fld.lineNumber,
                         "Missing coordinate value for", key, "error"))
    ELSE ok(createNamedPoint(fld.value))

requirePoint(record, map, key) ==
    LET fld == requireField(record, map, key)
    IN  IF ~fld.ok THEN fld ELSE parsePointField(record, key, fld.value)

optionalPoint(record, map, key) ==
    IF key \notin DOMAIN map THEN ok(<<>>)
    ELSE LET r == parsePointField(record, key, map[key])
         IN  IF r.ok THEN ok(<<r.value>>) ELSE r

\* parseLoadCases, were the entries kept as they stand between the commas.
parseLoadCasesAsWritten(fld) ==
    IF fld = <<>> THEN <<>>
    ELSE LET entries == split(fld[1].value, ",")
             kept    == SelectSeq(entries, LAMBDA entry : Len(trim(entry)) > 0)
         IN  [i \in 1..Len(kept) |-> kept[i]]

parseLoadCases(fld) ==
    IF fld = <<>> THEN <<>>
    ELSE LET entries == split(fld[1].value, ",")
             trimmed == [i \in 1..Len(entries) |-> trim(entries[i])]
             kept    == SelectSeq(trimmed, LAMBDA entry : Len(entry) > 0)
         IN  [i \in 1..Len(kept) |-> asLoadCaseCode(kept[i])]

\* parseWeight, were the weight of a record without GEW zero.
parseWeightOrZero(record, fld) ==
    IF fld = <<>> THEN ok(<<asKilograms(makeNumber(1, 0, 0))>>)
    ELSE LET numeric == parseFloat(fld[1].value)
         IN  IF isNaN(numeric)
             THEN err(createIssue(record.code, fld[1].lineNumber,
                                  "Invalid weight value", fld[1].value, "error"))
             ELSE ok(<<asKilograms(numeric)>>)

parseWeight(record, fld) ==
    IF fld = <<>> THEN ok(<<>>)
    ELSE LET numeric == parseFloat(fld[1].value)
         IN  IF isNaN(numeric)
             THEN err(createIssue(record.code, fld[1].lineNumber,
                                  "Invalid weight value", fld[1].value, "error"))
             ELSE ok(<<asKilograms(numeric)>>)

optionalAxis(record, fld) ==
    IF fld = <<>> THEN ok(<<>>)
    ELSE LET value == toUpperCase(trim(fld[1].value))
         IN  IF value = <<"Y">> \/ value = <<"Z">>
             THEN ok(<<value>>)
             ELSE err(createIssue(record.code, fld[1].lineNumber,
                                  "Invalid ACHSE value (expected Y or Z)",
                                  fld[1].value, "error"))

\* The mappers are the as...Code functions of types.ts.
optionalMapped(map, key, mapper(_)) ==
    IF key \notin DOMAIN map THEN <<>> ELSE <<mapper(map[key].value)>>

optionalString(map, key) ==
    IF key \notin DOMAIN map THEN <<>> ELSE <<asString(map[key].value)>>

\* An object property that is left out when its value is undefined.
prop(name, value) == IF value = <<>> THEN <<>> ELSE name :> value[1]

mapToRecord(map) == [k \in DOMAIN map |-> map[k]]

----------------------------------------------------------------------------
(* ntr/parser.ts: one constructor per record code                          *)

\* The attributes every constructor reads the same way.
commonAttributes(map) ==
    prop("material", optionalMapped(map, KEY_MAT, asMaterialCode))
    @@ [loadCases |-> parseLoadCases(mapGet(map, KEY_LAST))]
    @@ prop("description", optionalString(map, KEY_TEXT))
    @@ prop("reference", optionalMapped(map, KEY_REF, asReferenceCode))
    @@ prop("pipeline", optionalMapped(map, KEY_LTG, asPipelineCode))
    @@ prop("componentTag", optionalMapped(map, KEY_BTK, asComponentTag))

normAttributes(map) ==
    prop("norm", optionalMapped(map, KEY_NORM, asNormCode))
    @@ prop("series", optionalMapped(map, KEY_SERIES, asSeriesCode))
    @@ prop("schedule", optionalMapped(map, KEY_SCHED, asScheduleCode))

parseNominalDiameterRecord(record) ==
    LET map           == createFieldMap(record)
        nameField     == requireField(record, map, KEY_NAME)
        outerDiameter == requireNumericField(record, map, KEY_DA)
        thickness     == optionalNumericField(record, map, KEY_S)
    IN  IF ~nameField.ok THEN nameField
        ELSE IF ~outerDiameter.ok THEN outerDiameter
        ELSE IF ~thickness.ok THEN thickness
        ELSE ok([code       |-> asNominalDiameterCode(nameField.value.value),
                 definition |->
                     [outsideDiameter |-> asMillimeters(outerDiameter.value)]
                     @@ prop("thickness", thickness.value)])

parseStraightPipe(record) ==
    LET map         == createFieldMap(record)
        rawFields   == snapshotRawFields(map)
        startResult == requirePoint(record, map, KEY_P1)
        endResult   == requirePoint(record, map, KEY_P2)
        dnResult    == requireField(record, map, KEY_DN)
    IN  IF ~startResult.ok THEN startResult
        ELSE IF ~endResult.ok THEN endResult
        ELSE IF ~dnResult.ok THEN dnResult
        ELSE ok([kind            |-> "RO",
                 rawFields       |-> rawFields,
                 start           |-> startResult.value,
                 end             |-> endResult.value,
                 nominalDiameter |-> asNominalDiameterCode(dnResult.value.value)]
                @@ commonAttributes(map) @@ normAttributes(map))

parseBend(record) ==
    LET map           == createFieldMap(record)
        rawFields     == snapshotRawFields(map)
        startResult   == requirePoint(record, map, KEY_P1)
        endResult     == requirePoint(record, map, KEY_P2)
        tangentResult == requirePoint(record, map, KEY_PT)
        dnResult      == requireField(record, map, KEY_DN)
    IN  IF ~startResult.ok THEN startResult
        ELSE IF ~endResult.ok THEN endResult
        ELSE IF ~tangentResult.ok THEN tangentResult
        ELSE IF ~dnResult.ok THEN dnResult
        ELSE ok([kind            |-> "BOG",
                 rawFields       |-> rawFields,
                 start           |-> startResult.value,
                 end             |-> endResult.value,
                 tangent         |-> tangentResult.value,
                 nominalDiameter |-> asNominalDiameterCode(dnResult.value.value)]
                @@ commonAttributes(map) @@ normAttributes(map))

parseTee(record) ==
    LET map         == createFieldMap(record)
        rawFields   == snapshotRawFields(map)
        mainStart   == requirePoint(record, map, KEY_PH1)
        mainEnd     == requirePoint(record, map, KEY_PH2)
        branchStart == requirePoint(record, map, KEY_PA1)
        branchEnd   == requirePoint(record, map, KEY_PA2)
        mainDn      == requireField(record, map, KEY_DNH)
        branchDn    == requireField(record, map, KEY_DNA)
    IN  IF ~mainStart.ok THEN mainStart
        ELSE IF ~mainEnd.ok THEN mainEnd
        ELSE IF ~branchStart.ok THEN branchStart
        ELSE IF ~branchEnd.ok THEN branchEnd
        ELSE IF ~mainDn.ok THEN mainDn
        ELSE IF ~branchDn.ok THEN branchDn
        ELSE ok([kind        |-> "TEE",
                 rawFields   |-> rawFields,
                 mainStart   |-> mainStart.value,
                 mainEnd     |-> mainEnd.value,
                 branchStart |-> branchStart.value,
                 branchEnd   |-> branchEnd.value,
                 mainNominalDiameter   |->
                     asNominalDiameterCode(mainDn.value.value),
                 branchNominalDiameter |->
                     asNominalDiameterCode(branchDn.value.value)]
                @@ commonAttributes(map) @@ normAttributes(map)
                @@ prop("teeType", optionalString(map, KEY_TYP)))

parseArm(record) ==
    LET map          == createFieldMap(record)
        rawFields    == snapshotRawFields(map)
        start        == requirePoint(record, map, KEY_P1)
        end          == requirePoint(record, map, KEY_P2)
        center       == requirePoint(record, map, KEY_PM)
        dn1          == requireField(record, map, KEY_DN1)
        dn2          == requireField(record, map, KEY_DN2)
        weightResult == parseWeight(record, mapGet(map, KEY_GEW))
    IN  IF ~start.ok THEN start
        ELSE IF ~end.ok THEN end
        ELSE IF ~center.ok THEN center
        ELSE IF ~dn1.ok THEN dn1
        ELSE IF ~dn2.ok THEN dn2
        ELSE IF ~weightResult.ok THEN weightResult
        ELSE ok([kind           |-> "ARM",
                 rawFields      |-> rawFields,
                 start          |-> start.value,
                 end            |-> end.value,
                 center         |-> center.value,
                 inletDiameter  |-> asNominalDiameterCode(dn1.value.value),
                 outletDiameter |-> asNominalDiameterCode(dn2.value.value)]
                @@ commonAttributes(map)
                @@ prop("weight", weightResult.value))

parseProfile(record) ==
    LET map           == createFieldMap(record)
        rawFields     == snapshotRawFields(map)
        start         == requirePoint(record, map, KEY_P1)
        end           == requirePoint(record, map, KEY_P2)
        typ           == requireField(record, map, KEY_TYP)
        axis          == optionalAxis(record, mapGet(map, KEY_ACHSE))
        axisDirection == optionalPoint(record, map, KEY_RI)
    IN  IF ~start.ok THEN start
        ELSE IF ~end.ok THEN end
        ELSE IF ~typ.ok THEN typ
        ELSE IF ~axis.ok THEN axis
        ELSE IF ~axisDirection.ok THEN axisDirection
        ELSE ok([kind        |-> "PROF",
                 rawFields   |-> rawFields,
                 start       |-> start.value,
                 end         |-> end.value,
                 profileType |-> asProfileTypeCode(typ.value.value)]
                @@ commonAttributes(map)
                @@ prop("norm", optionalMapped(map, KEY_NORM, asNormCode))
                @@ prop("axis", axis.value)
                @@ prop("axisDirection", axisDirection.value))

parseReducer(record) ==
    LET map       == createFieldMap(record)
        rawFields == snapshotRawFields(map)
        start     == requirePoint(record, map, KEY_P1)
        end       == requirePoint(record, map, KEY_P2)
        dn1       == requireField(record, map, KEY_DN1)
        dn2       == requireField(record, map, KEY_DN2)
    IN  IF ~start.ok THEN start
        ELSE IF ~end.ok THEN end
        ELSE IF ~dn1.ok THEN dn1
        ELSE IF ~dn2.ok THEN dn2
        ELSE ok([kind           |-> "RED",
                 rawFields      |-> rawFields,
                 start          |-> start.value,
                 end            |-> end.value,
                 inletDiameter  |-> asNominalDiameterCode(dn1.value.value),
                 outletDiameter |-> asNominalDiameterCode(dn2.value.value)]
                @@ commonAttributes(map) @@ normAttributes(map))

parseElementRecord(record) ==
    CASE record.code = CODE_RO   -> parseStraightPipe(record)
      [] record.code = CODE_BOG  -> parseBend(record)
      [] record.code = CODE_TEE  -> parseTee(record)
      [] record.code = CODE_ARM  -> parseArm(record)
      [] record.code = CODE_PROF -> parseProfile(record)
      [] record.code = CODE_RED  -> parseReducer(record)
      [] OTHER -> err(createIssue(record.code, record.lineNumber,
                                  "Unsupported record code", record.code,
                                  "warning"))

----------------------------------------------------------------------------
(* ntr/validation.ts: the zod schemas                                      *)
(*                                                                         *)
(* A schema is modelled by two operators: the issues it reports on an      *)
(* input, in zod's order (the keys of an object in the order of its shape, *)
(* then the unrecognised keys of a strict object), and the output it       *)
(* produces when there is none.  Inputs are well typed at their leaves:    *)
(* a text is a string, a quantity a number.                                *)

\* An entry of ZodError.issues: its path and its code.  The path is the top
\* level key (part), the array index or 0, the record key or <<>>, and the
\* key inside the element, definition or issue ("" for the object itself).
zodIssue(part, index, name, key, code) ==
    [path |-> [part |-> part, index |-> index, name |-> name, key |-> key],
     code |-> code,
     message |-> code]

\* Concatenation of the issue lists f(1), ..., f(n).
RECURSIVE flatMap(_, _, _)
flatMap(f(_), i, n) == IF i > n THEN <<>> ELSE f(i) \o flatMap(f, i + 1, n)

\* z.string().trim().min(1): identifierSchema, materialCodeSchema,
\* nominalDiameterSchema, loadCaseSchema, ... all have this form, followed
\* by a transform with the as...Code function, which trims again.
stringTrimMin1Ok(value) == Len(trim(value)) >= 1
\* The output, were one white space at most removed from each end.
stringTrimMin1OutOnce(value) ==
    LET from == IF value # <<>> /\ Head(value) \in WhiteSpace THEN 2 ELSE 1
        to   == IF value # <<>> /\ value[Len(value)] \in WhiteSpace
                THEN Len(value) - 1 ELSE Len(value)
    IN  SubSeq(value, from, to)

stringTrimMin1Out(value) == trim(trim(value))

\* millimetersSchema, were .finite() left out.
millimetersSchemaNumber(value) == ~isNaN(value)

\* z.number().finite(): NaN is no number for zod.
millimetersSchemaOk(value) == ~isNaN(value) /\ isFinite(value)

\* z.number().finite().min(0)
kilogrameSchemaOk(value) ==
    ~isNaN(value) /\ isFinite(value) /\ value.m >= 0

vector3SchemaOk(v) ==
    /\ DOMAIN v = {"x", "y", "z"}
    /\ millimetersSchemaOk(v.x) /\ millimetersSchemaOk(v.y)
    /\ millimetersSchemaOk(v.z)

coordinatePointSchemaOk(p) ==
    /\ DOMAIN p = {"kind", "position"}
    /\ p.kind = "coordinate"
    /\ vector3SchemaOk(p.position)

namedPointSchemaOk(p) ==
    /\ DOMAIN p = {"kind", "id"}
    /\ p.kind = "named"
    /\ stringTrimMin1Ok(p.id)

pointReferenceSchemaOk(p) ==
    coordinatePointSchemaOk(p) \/ namedPointSchemaOk(p)

pointReferenceSchemaOut(p) ==
    IF coordinatePointSchemaOk(p)
    THEN createCoordinatePoint(p.position)
    ELSE createNamedPoint(trim(p.id))

ElementKinds == {"RO", "BOG", "TEE", "ARM", "PROF", "RED"}

\* The shape of elementBaseSchema and what each .extend adds, in order.
BaseKeys ==
    <<"kind", "rawFields", "material", "loadCases", "description",
      "reference", "pipeline", "componentTag", "norm", "series", "schedule">>

ExtensionKeys(kind) ==
    CASE kind = "RO"   -> <<"start", "end", "nominalDiameter">>
      [] kind = "PROF" -> <<"start", "end", "profileType", "axis",
                            "axisDirection">>
      [] kind = "BOG"  -> <<"start", "end", "tangent", "nominalDiameter">>
      [] kind = "TEE"  -> <<"mainStart", "mainEnd", "branchStart",
                            "branchEnd", "mainNominalDiameter",
                            "branchNominalDiameter", "teeType">>
      [] kind = "ARM"  -> <<"start", "end", "center", "inletDiameter",
                            "outletDiameter", "weight">>
      [] kind = "RED"  -> <<"start", "end", "inletDiameter",
                            "outletDiameter">>

ElementShape(kind) == BaseKeys \o ExtensionKeys(kind)

PointKeys ==
    {"start", "end", "tangent", "center", "mainStart", "mainEnd",
     "branchStart", "branchEnd", "axisDirection"}

TextKeys ==
    {"material", "description", "reference", "pipeline", "componentTag",
     "norm", "series", "schedule", "nominalDiameter", "mainNominalDiameter",
     "branchNominalDiameter", "inletDiameter", "outletDiameter",
     "profileType", "teeType"}

\* The keys declared .optional() and the keys declared .default(...).
OptionalKeys ==
    {"material", "description", "reference", "pipeline", "componentTag",
     "norm", "series", "schedule", "teeType", "weight", "axis",
     "axisDirection"}

DefaultKeys == {"rawFields", "loadCases"}

Range(seq) == {seq[i] : i \in 1..Len(seq)}

\* The issues one key of an element's shape reports.
elementKeyIssues(e, index, key) ==
    LET at(code) == <<zodIssue("elements", index, <<>>, key, code)>>
    IN  IF key \notin DOMAIN e
        THEN IF key \in OptionalKeys \cup DefaultKeys THEN <<>>
             ELSE at("invalid_type")
        ELSE CASE key \in {"kind", "rawFields"} -> <<>>
               [] key \in TextKeys ->
                    IF stringTrimMin1Ok(e[key]) THEN <<>> ELSE at("too_small")
               [] key = "loadCases" ->
                    LET one(i) == IF stringTrimMin1Ok(e[key][i]) THEN <<>>
                                  ELSE at("too_small")
                    IN  flatMap(one, 1, Len(e[key]))
               [] key \in PointKeys ->
                    IF pointReferenceSchemaOk(e[key]) THEN <<>>
                    ELSE at("invalid_union")
               [] key = "weight" ->
                    IF kilogrameSchemaOk(e[key]) THEN <<>>
                    ELSE IF isNaN(e[key]) THEN at("invalid_type")
                    ELSE IF ~isFinite(e[key]) THEN at("not_finite")
                    ELSE at("too_small")
               [] key = "axis" ->
                    IF e[key] \in {<<"Y">>, <<"Z">>} THEN <<>>
                    ELSE at("invalid_enum_value")

\* elementKeyOut, were the texts returned as they were given.
elementKeyOutAsGiven(e, key) == IF key \notin DOMAIN e THEN <<>> ELSE e[key]

\* What one key of an element's shape becomes.
elementKeyOut(e, key) ==
    IF key \notin DOMAIN e THEN <<>>
    ELSE CASE key \in TextKeys -> stringTrimMin1Out(e[key])
           [] key = "loadCases" ->
                [i \in 1..Len(e[key]) |-> stringTrimMin1Out(e[key][i])]
           [] key \in PointKeys -> pointReferenceSchemaOut(e[key])
           [] OTHER -> e[key]

\* elementSchema: the discriminated union of the six strict objects.
elementSchemaIssues(e, index) ==
    IF "kind" \notin DOMAIN e \/ e.kind \notin ElementKinds
    THEN <<zodIssue("elements", index, <<>>, "kind",
                    "invalid_union_discriminator")>>
    ELSE LET shape  == ElementShape(e.kind)
             one(i) == elementKeyIssues(e, index, shape[i])
         IN  flatMap(one, 1, Len(shape))
             \o (IF DOMAIN e \subseteq Range(shape) THEN <<>>
                 ELSE <<zodIssue("elements", index, <<>>, "",
                                 "unrecognized_keys")>>)

elementSchemaOut(e) ==
    LET shape == ElementShape(e.kind)
        keys  == (DOMAIN e \cap Range(shape)) \cup DefaultKeys
    IN  [key \in keys |-> elementKeyOut(e, key)]

\* nominalDiameterDefinitionSchema on the entry `name` of the table.
definitionIssues(def, name) ==
    LET at(key, code) == <<zodIssue("definitions", 0, name, key, code)>>
    IN  (IF "outsideDiameter" \notin DOMAIN def
         THEN at("outsideDiameter", "invalid_type")
         ELSE IF millimetersSchemaOk(def.outsideDiameter) THEN <<>>
         ELSE at("outsideDiameter", "not_finite"))
        \o (IF "thickness" \notin DOMAIN def
               \/ millimetersSchemaOk(def.thickness) THEN <<>>
            ELSE at("thickness", "not_finite"))
        \o (IF DOMAIN def \subseteq {"outsideDiameter", "thickness"} THEN <<>>
            ELSE at("", "unrecognized_keys"))

\* A set of texts as a sequence, to walk the entries of a table one by one.
RECURSIVE setToSeq(_)
setToSeq(S) ==
    IF S = {} THEN <<>>
    ELSE LET x == CHOOSE y \in S : TRUE IN <<x>> \o setToSeq(S \ {x})

\* definitionsSchema: a strict object whose nominalDiameters defaults to {}.
definitionsSchemaIssues(d) ==
    LET table  == IF "nominalDiameters" \in DOMAIN d THEN d.nominalDiameters
                  ELSE <<>>
        names  == setToSeq(DOMAIN table)
        one(i) == definitionIssues(table[names[i]], names[i])
    IN  flatMap(one, 1, Len(names))
        \o (IF DOMAIN d \subseteq {"nominalDiameters"} THEN <<>>
            ELSE <<zodIssue("definitions", 0, <<>>, "", "unrecognized_keys")>>)

\* The transform of definitionsSchema: every key of the table is replaced by
\* asNominalDiameterCode(key).  Of two keys that become equal JavaScript
\* keeps the entry written last; the tables checked here have no such keys.
definitionsSchemaOut(d) ==
    LET table == IF "nominalDiameters" \in DOMAIN d THEN d.nominalDiameters
                 ELSE <<>>
        codes == {asNominalDiameterCode(name) : name \in DOMAIN table}
        from(code) == CHOOSE name \in DOMAIN table :
                          asNominalDiameterCode(name) = code
    IN  [nominalDiameters |-> [code \in codes |-> table[from(code)]]]

\* The message of a ParseIssue as text is tpl followed by arg; every fixed
\* text starts and ends with a character that is no white space.
messageOk(message) == message.tpl # "" \/ stringTrimMin1Ok(message.arg)
messageOut(message) ==
    IF message.tpl # "" THEN message
    ELSE [tpl |-> "", arg |-> trim(message.arg)]

IssueShape == <<"severity", "message", "recordCode", "lineNumber", "details">>

\* parseIssueSchema on the entry `index` of issues.
parseIssueSchemaIssues(issue, index) ==
    LET at(key, code) == <<zodIssue("issues", index, <<>>, key, code)>>
        required(key, valid, code) ==
            IF key \notin DOMAIN issue THEN at(key, "invalid_type")
            ELSE IF valid THEN <<>> ELSE at(key, code)
    IN  required("severity", issue.severity \in {"error", "warning"},
                 "invalid_union")
        \o required("message", messageOk(issue.message), "too_small")
        \o required("recordCode", stringTrimMin1Ok(issue.recordCode),
                    "too_small")
        \o required("lineNumber", issue.lineNumber >= 1, "too_small")
        \o (IF DOMAIN issue \subseteq Range(IssueShape) THEN <<>>
            ELSE at("", "unrecognized_keys"))

parseIssueSchemaOut(issue) ==
    [key \in DOMAIN issue |->
        CASE key = "message"    -> messageOut(issue[key])
          [] key = "recordCode" -> trim(issue[key])
          [] OTHER              -> issue[key]]

\* metadataSchema: a strict object of two optional texts.
metadataSchemaIssues(metadata) ==
    LET at(key, code) == <<zodIssue("metadata", 0, <<>>, key, code)>>
        optional(key) ==
            IF key \notin DOMAIN metadata \/ stringTrimMin1Ok(metadata[key])
            THEN <<>> ELSE at(key, "too_small")
    IN  optional("projectName") \o optional("specification")
        \o (IF DOMAIN metadata \subseteq {"projectName", "specification"}
            THEN <<>> ELSE at("", "unrecognized_keys"))

metadataSchemaOut(metadata) ==
    [key \in DOMAIN metadata |-> trim(metadata[key])]

FileShape == <<"id", "metadata", "definitions", "elements", "issues">>

\* ntrFileSchema.safeParse(data).error.issues
ntrFileSchemaIssues(data) ==
    LET has(key)     == key \in DOMAIN data
        elementAt(i) == elementSchemaIssues(data.elements[i], i)
        issueAt(i)   == parseIssueSchemaIssues(data.issues[i], i)
    IN  (IF ~has("id") THEN <<zodIssue("id", 0, <<>>, "", "invalid_type")>>
         ELSE IF stringTrimMin1Ok(data.id) THEN <<>>
         ELSE <<zodIssue("id", 0, <<>>, "", "too_small")>>)
        \o (IF has("metadata") THEN metadataSchemaIssues(data.metadata)
            ELSE <<>>)
        \o (IF has("definitions")
            THEN definitionsSchemaIssues(data.definitions) ELSE <<>>)
        \o (IF has("elements")
            THEN flatMap(elementAt, 1, Len(data.elements)) ELSE <<>>)
        \o (IF has("issues")
            THEN flatMap(issueAt, 1, Len(data.issues)) ELSE <<>>)
        \o (IF DOMAIN data \subseteq Range(FileShape) THEN <<>>
            ELSE <<zodIssue("", 0, <<>>, "", "unrecognized_keys")>>)

\* ntrFileSchema.safeParse(data).data
ntrFileSchemaOut(data) ==
    LET has(key) == key \in DOMAIN data
    IN  [id          |-> asIdentifier(trim(data.id)),
         metadata    |-> IF has("metadata")
                         THEN metadataSchemaOut(data.metadata) ELSE <<>>,
         definitions |-> IF has("definitions")
                         THEN definitionsSchemaOut(data.definitions)
                         ELSE definitionsSchemaOut(
                                  [nominalDiameters |-> <<>>]),
         elements    |-> IF has("elements")
                         THEN [i \in 1..Len(data.elements) |->
                                  elementSchemaOut(data.elements[i])]
                         ELSE <<>>,
         issues      |-> IF has("issues")
                         THEN [i \in 1..Len(data.issues) |->
                                  parseIssueSchemaOut(data.issues[i])]
                         ELSE <<>>]

validateNtrFile(data) ==
    LET found == ntrFileSchemaIssues(data)
    IN  IF found = <<>> THEN ok(ntrFileSchemaOut(data))
        ELSE err([issues |-> found])

----------------------------------------------------------------------------
(* ntr/parser.ts: parseNtr                                                 *)

\* The candidate document parseNtr hands to validateNtrFile.
assembleFile(fileId, table, built, collected) ==
    [id          |-> fileId,
     metadata    |-> <<>>,
     definitions |-> [nominalDiameters |-> mapToRecord(table)],
     elements    |-> built,
     issues      |-> collected]

validationIssues(error) ==
    [i \in 1..Len(error.issues) |->
        createIssue(CODE_VALIDATION, 0, error.issues[i].message, <<>>,
                    "error")]

hasError(list) == \E i \in 1..Len(list) : list[i].severity = "error"

\* viewer/sceneGraph.ts, lookupOuterDiameter: lookup[code]?.outsideDiameter,
\* length 0 when undefined.
lookupOuterDiameter(lookup, code) ==
    IF code \in DOMAIN lookup THEN <<lookup[code].outsideDiameter>> ELSE <<>>

Unset == <<>>

\* Nothing of the viewer has run.
ViewerIdle ==
    /\ file = Unset
    /\ elementIndex = 0
    /\ points = Unset
    /\ min = Unset
    /\ max = Unset
    /\ sceneElements = Unset
    /\ graph = Unset
    /\ sceneOffset = Unset
    /\ bend = Unset
    /\ arc = Unset
    /\ meshes = Unset

\* Nothing of the application shell has run: main.ts's initial state and
\* telemetry.ts's `let enabled = false`.
AppIdle ==
    /\ state = [filePath |-> <<>>, graph |-> <<>>, issues |-> <<>>]
    /\ lastFile = <<>>
    /\ watched = <<>>
    /\ disk = <<>>
    /\ events = {}
    /\ reads = {}
    /\ applied = <<>>
    /\ edits = 0
    /\ started = FALSE
    /\ enabled = FALSE
    /\ stored = <<>>
    /\ storageUp = TRUE
    /\ emitted = 0
    /\ call = [op |-> "none", read |-> <<>>, returned |-> <<>>,
               requested |-> <<>>, wrote |-> <<>>]

\* const { records, issues } = lexNtr(source), and the three collections.
Lex ==
    /\ pc = "start"
    /\ \E lexed \in {lexNtr(source)} :
           /\ records' = lexed.records
           /\ issues' = lexed.issues
           /\ collectedIssues' = lexed.issues
    /\ elements' = <<>>
    /\ nominalDiameters' = <<>>
    /\ cursor' = 1
    /\ pc' = "loop"
    /\ UNCHANGED <<id, source, result, candidate, validation, revalidation,
                   fault, viewerVars, appVars>>

\* InterpretElement, were a failed record to end the loop.
InterpretElementAborting ==
    /\ pc = "loop"
    /\ cursor <= Len(records)
    /\ records[cursor].code \in ElementCodes
    /\ \E built \in {parseElementRecord(records[cursor])} :
           IF built.ok
           THEN /\ elements' = Append(elements, built.value)
                /\ cursor' = cursor + 1
                /\ UNCHANGED collectedIssues
           ELSE /\ collectedIssues' = Append(collectedIssues, built.error)
                /\ cursor' = Len(records) + 1
                /\ UNCHANGED elements
    /\ UNCHANGED <<pc, id, source, records, issues, nominalDiameters, result,
                   candidate, validation, revalidation, fault, viewerVars,
                   appVars>>

\* InterpretElement, were a new element put in front of the others.
InterpretElementInFront ==
    /\ pc = "loop"
    /\ cursor <= Len(records)
    /\ records[cursor].code \in ElementCodes
    /\ \E built \in {parseElementRecord(records[cursor])} :
           IF built.ok
           THEN /\ elements' = <<built.value>> \o elements
                /\ UNCHANGED collectedIssues
           ELSE /\ collectedIssues' = Append(collectedIssues, built.error)
                /\ UNCHANGED elements
    /\ cursor' = cursor + 1
    /\ UNCHANGED <<pc, id, source, records, issues, nominalDiameters, result,
                   candidate, validation, revalidation, fault, viewerVars,
                   appVars>>

\* One turn of the loop on a record of an element code.
InterpretElement ==
    /\ pc = "loop"
    /\ cursor <= Len(records)
    /\ records[cursor].code \in ElementCodes
    /\ \E built \in {parseElementRecord(records[cursor])} :
           IF built.ok
           THEN /\ elements' = Append(elements, built.value)
                /\ UNCHANGED collectedIssues
           ELSE /\ collectedIssues' = Append(collectedIssues, built.error)
                /\ UNCHANGED elements
    /\ cursor' = cursor + 1
    /\ UNCHANGED <<pc, id, source, records, issues, nominalDiameters, result,
                   candidate, validation, revalidation, fault, viewerVars,
                   appVars>>

\* InterpretDN, were a definition that follows an element record left out
\* of the table.
InterpretDNBeforeElements ==
    /\ pc = "loop"
    /\ cursor <= Len(records)
    /\ records[cursor].code = CODE_DN
    /\ \E record \in {records[cursor]},
          entry \in {parseNominalDiameterRecord(records[cursor])} :
           IF ~entry.ok
           THEN /\ collectedIssues' = Append(collectedIssues, entry.error)
                /\ UNCHANGED nominalDiameters
           ELSE IF entry.value.code \in DOMAIN nominalDiameters
           THEN /\ collectedIssues' =
                       Append(collectedIssues,
                              createIssue(record.code, record.lineNumber,
                                          "Duplicate DN definition ignored",
                                          entry.value.code, "warning"))
                /\ UNCHANGED nominalDiameters
           ELSE /\ nominalDiameters' =
                       IF elements = <<>>
                       THEN nominalDiameters
                            @@ (entry.value.code :> entry.value.definition)
                       ELSE nominalDiameters
                /\ UNCHANGED collectedIssues
    /\ cursor' = cursor + 1
    /\ UNCHANGED <<pc, id, source, records, issues, elements, result,
                   candidate, validation, revalidation, fault, viewerVars,
                   appVars>>

\* InterpretDN, were the later definition of a code to replace the first.
InterpretDNOverwriting ==
    /\ pc = "loop"
    /\ cursor <= Len(records)
    /\ records[cursor].code = CODE_DN
    /\ \E record \in {records[cursor]},
          entry \in {parseNominalDiameterRecord(records[cursor])} :
           IF ~entry.ok
           THEN /\ collectedIssues' = Append(collectedIssues, entry.error)
                /\ UNCHANGED nominalDiameters
           ELSE IF entry.value.code \in DOMAIN nominalDiameters
           THEN /\ collectedIssues' =
                       Append(collectedIssues,
                              createIssue(record.code, record.lineNumber,
                                          "Duplicate DN definition ignored",
                                          entry.value.code, "warning"))
                /\ nominalDiameters' =
                       [nominalDiameters
                           EXCEPT ![entry.value.code] = entry.value.definition]
           ELSE /\ nominalDiameters' =
                       nominalDiameters
                       @@ (entry.value.code :> entry.value.definition)
                /\ UNCHANGED collectedIssues
    /\ cursor' = cursor + 1
    /\ UNCHANGED <<pc, id, source, records, issues, elements, result,
                   candidate, validation, revalidation, fault, viewerVars,
                   appVars>>

\* One turn of the loop on a DN record.
InterpretDN ==
    /\ pc = "loop"
    /\ cursor <= Len(records)
    /\ records[cursor].code = CODE_DN
    /\ \E record \in {records[cursor]},
          entry \in {parseNominalDiameterRecord(records[cursor])} :
           IF ~entry.ok
           THEN /\ collectedIssues' = Append(collectedIssues, entry.error)
                /\ UNCHANGED nominalDiameters
           ELSE IF entry.value.code \in DOMAIN nominalDiameters
           THEN /\ collectedIssues' =
                       Append(collectedIssues,
                              createIssue(record.code, record.lineNumber,
                                          "Duplicate DN definition ignored",
                                          entry.value.code, "warning"))
                /\ UNCHANGED nominalDiameters
           ELSE /\ nominalDiameters' =
                       nominalDiameters
                       @@ (entry.value.code :> entry.value.definition)
                /\ UNCHANGED collectedIssues
    /\ cursor' = cursor + 1
    /\ UNCHANGED <<pc, id, source, records, issues, elements, result,
                   candidate, validation, revalidation, fault, viewerVars,
                   appVars>>

\* One turn of the loop on a known non-geometric record: nothing is done.
SkipMetadata ==
    /\ pc = "loop"
    /\ cursor <= Len(records)
    /\ records[cursor].code \in MetadataCodes
    /\ cursor' = cursor + 1
    /\ UNCHANGED <<pc, id, source, records, issues, elements, collectedIssues,
                   nominalDiameters, result, candidate, validation,
                   revalidation, fault, viewerVars, appVars>>

\* WarnUnsupported, were the issue of the default case an error.
WarnUnsupportedAsError ==
    /\ pc = "loop"
    /\ cursor <= Len(records)
    /\ records[cursor].code \notin ElementCodes \cup {CODE_DN} \cup MetadataCodes
    /\ collectedIssues' =
           Append(collectedIssues,
                  createIssue(records[cursor].code, records[cursor].lineNumber,
                              "Unsupported record code", records[cursor].code,
                              "error"))
    /\ cursor' = cursor + 1
    /\ UNCHANGED <<pc, id, source, records, issues, elements,
                   nominalDiameters, result, candidate, validation,
                   revalidation, fault, viewerVars, appVars>>

\* One turn of the loop on any other record: the default case.
WarnUnsupported ==
    /\ pc = "loop"
    /\ cursor <= Len(records)
    /\ records[cursor].code \notin ElementCodes \cup {CODE_DN} \cup MetadataCodes
    /\ collectedIssues' =
           Append(collectedIssues,
                  createIssue(records[cursor].code, records[cursor].lineNumber,
                              "Unsupported record code", records[cursor].code,
                              "warning"))
    /\ cursor' = cursor + 1
    /\ UNCHANGED <<pc, id, source, records, issues, elements,
                   nominalDiameters, result, candidate, validation,
                   revalidation, fault, viewerVars, appVars>>

\* After the loop: some collected issue is an error.
ReturnErrors ==
    /\ pc = "loop"
    /\ cursor > Len(records)
    /\ hasError(collectedIssues)
    /\ result' = err(collectedIssues)
    /\ pc' = "done"
    /\ UNCHANGED <<id, source, records, issues, cursor, elements,
                   collectedIssues, nominalDiameters, candidate, validation,
                   revalidation, fault, viewerVars, appVars>>

\* ReturnValidated, were a validation failure to return its own issues only.
ReturnValidatedAlone ==
    /\ pc = "loop"
    /\ cursor > Len(records)
    /\ ~hasError(collectedIssues)
    /\ candidate' = assembleFile(id, nominalDiameters, elements,
                                 collectedIssues)
    /\ validation' = validateNtrFile(candidate')
    /\ result' = IF validation'.ok
                 THEN ok([file   |-> validation'.value,
                          issues |-> collectedIssues])
                 ELSE err(validationIssues(validation'.error))
    /\ pc' = "done"
    /\ UNCHANGED <<id, source, records, issues, cursor, elements,
                   collectedIssues, nominalDiameters, revalidation, fault,
                   viewerVars, appVars>>

\* After the loop: no error, and the assembled document is validated.
ReturnValidated ==
    /\ pc = "loop"
    /\ cursor > Len(records)
    /\ ~hasError(collectedIssues)
    /\ candidate' = assembleFile(id, nominalDiameters, elements,
                                 collectedIssues)
    /\ validation' = validateNtrFile(candidate')
    /\ result' = IF validation'.ok
                 THEN ok([file   |-> validation'.value,
                          issues |-> collectedIssues])
                 ELSE err(collectedIssues
                          \o validationIssues(validation'.error))
    /\ pc' = "done"
    /\ UNCHANGED <<id, source, records, issues, cursor, elements,
                   collectedIssues, nominalDiameters, revalidation, fault,
                   viewerVars, appVars>>

Next ==
    \/ Lex
    \/ InterpretElement
    \/ InterpretDN
    \/ SkipMetadata
    \/ WarnUnsupported
    \/ ReturnErrors
    \/ ReturnValidated

----------------------------------------------------------------------------
(* The source texts the runs start from                                    *)

\* Most lines of a source text.
MaxLines == 2

quote(value) == <<"'">> \o value \o <<"'">>
keyValue(key, value) == key \o <<"=">> \o value

RECURSIVE join(_, _)
join(parts, separator) ==
    IF parts = <<>> THEN <<>>
    ELSE IF Len(parts) = 1 THEN parts[1]
    ELSE parts[1] \o separator \o join(Tail(parts), separator)

recordLine(code, fields) == join(<<code>> \o fields, <<" ">>)

Origin == <<"0", ",", "0", ",", "0">>
Corner == <<"1", ",", "1", ",", "0">>
Along  == <<"5", ",", "0", ",", "0">>
Node1  == <<"N", "1">>
CodeA  == <<"A">>
CodeB  == <<"B">>

lowerCase(s) ==
    [i \in 1..Len(s) |->
        IF \E c \in {"a", "b", "d", "n", "o", "p", "r"} :
               toUpperCaseChar(c) = s[i]
        THEN CHOOSE c \in {"a", "b", "d", "n", "o", "p", "r"} :
                 toUpperCaseChar(c) = s[i]
        ELSE s[i]]

\* One well-formed record of each element kind, as in tests/ntr/parser.spec.ts.
WellFormedLines ==
    {recordLine(CODE_RO, <<keyValue(KEY_P1, quote(Origin)),
                           keyValue(KEY_P2, quote(Along)),
                           keyValue(KEY_DN, CodeA),
                           keyValue(KEY_MAT, <<"S", "T">>),
                           keyValue(KEY_LAST, <<"L", "1", ",", "L", "2">>),
                           keyValue(KEY_LTG, quote(<<"P", " ", "1">>))>>),
     recordLine(CODE_BOG, <<keyValue(KEY_P1, quote(Origin)),
                            keyValue(KEY_P2, quote(Corner)),
                            keyValue(KEY_PT, quote(Along)),
                            keyValue(KEY_DN, CodeB)>>),
     recordLine(CODE_TEE, <<keyValue(KEY_PH1, quote(Origin)),
                            keyValue(KEY_PH2, Node1),
                            keyValue(KEY_PA1, quote(Corner)),
                            keyValue(KEY_PA2, quote(Along)),
                            keyValue(KEY_DNH, CodeA),
                            keyValue(KEY_DNA, CodeB),
                            keyValue(KEY_TYP, <<"H">>)>>),
     recordLine(CODE_ARM, <<keyValue(KEY_P1, quote(Origin)),
                            keyValue(KEY_P2, quote(Along)),
                            keyValue(KEY_PM, quote(Corner)),
                            keyValue(KEY_DN1, CodeA),
                            keyValue(KEY_DN2, CodeA),
                            keyValue(KEY_GEW, <<"1", "2", ".", "5">>)>>),
     recordLine(CODE_PROF, <<keyValue(KEY_P1, quote(Origin)),
                             keyValue(KEY_P2, Node1),
                             keyValue(KEY_TYP, <<"_", "R", "_">>),
                             keyValue(KEY_ACHSE, <<"y">>),
                             keyValue(KEY_RI, quote(Corner))>>),
     recordLine(CODE_RED, <<keyValue(KEY_P1, quote(Origin)),
                            keyValue(KEY_P2, quote(Along)),
                            keyValue(KEY_DN1, CodeA),
                            keyValue(KEY_DN2, CodeB)>>),
     \* lower-case code and keys, padded values, a CR before the line break
     recordLine(lowerCase(CODE_RO),
                <<keyValue(lowerCase(KEY_P1),
                           quote(<<" ", "1", ".", "5", " ", ",", "-", "2",
                                   ",", "3", "e", "1">>)),
                  keyValue(KEY_P2, Node1),
                  keyValue(lowerCase(KEY_DN), quote(<<" ", "A", " ">>)),
                  <<"\r">>>>)}

\* Records that fail in the lexer or in their constructor.
FailingLines ==
    {\* P2 is missing (tests/ntr/parser.spec.ts)
     recordLine(CODE_RO, <<keyValue(KEY_P1, quote(Origin)),
                           keyValue(KEY_DN, CodeA)>>),
     \* a token without "=" (tests/ntr/lexer.spec.ts)
     recordLine(CODE_RO, <<KEY_P1, keyValue(KEY_DN, CodeA)>>),
     \* a complete record followed by a token without "="
     recordLine(CODE_RED, <<keyValue(KEY_P1, quote(Origin)),
                            keyValue(KEY_P2, quote(Along)),
                            keyValue(KEY_DN1, CodeA),
                            keyValue(KEY_DN2, CodeB),
                            <<"?">>>>)}

\* Records the constructors accept and the validator may not.
DoubtfulLines ==
    {\* an empty DN value
     recordLine(CODE_RO, <<keyValue(KEY_P1, quote(Origin)),
                           keyValue(KEY_P2, quote(Along)),
                           keyValue(KEY_DN, <<>>)>>),
     \* a DN code in lower case
     recordLine(CODE_RO, <<keyValue(KEY_P1, quote(Origin)),
                           keyValue(KEY_P2, quote(Along)),
                           keyValue(KEY_DN, lowerCase(CodeA))>>)}

DefinitionLines ==
    {recordLine(CODE_DN, <<keyValue(KEY_NAME, CodeA),
                           keyValue(KEY_DA, <<"1", "6", "8", ".", "3">>)>>),
     recordLine(CODE_DN, <<keyValue(KEY_NAME, lowerCase(CodeA)),
                           keyValue(KEY_DA, <<"3">>)>>),
     recordLine(CODE_DN, <<keyValue(KEY_NAME, quote(<<" ", "A", " ">>)),
                           keyValue(KEY_DA, <<"4">>),
                           keyValue(KEY_S, <<"2">>)>>),
     recordLine(CODE_DN, <<keyValue(KEY_NAME, CodeA),
                           keyValue(KEY_DA, <<"x">>)>>)}

OtherLines ==
    {<<>>,
     recordLine(CODE_GEN, <<keyValue(<<"T">>, <<"2", "0">>)>>),
     recordLine(<<"X", "X">>, <<keyValue(<<"K">>, <<"1">>)>>)}

SourceLines ==
    WellFormedLines \cup FailingLines \cup DoubtfulLines
    \cup DefinitionLines \cup OtherLines

\* The source texts of at most MaxLines lines.
Sources ==
    {join(lines, <<"\n">>) :
        lines \in UNION {[1..n -> SourceLines] : n \in 0..MaxLines}}

\* The id is the path of the file; a blank one is what the validator rejects.
FileIds == {<<"f", ".", "n", "t", "r">>, <<" ">>}

Init ==
    /\ pc = "start"
    /\ id \in FileIds
    /\ source \in Sources
    /\ records = Unset
    /\ issues = Unset
    /\ cursor = 0
    /\ elements = Unset
    /\ collectedIssues = Unset
    /\ nominalDiameters = Unset
    /\ result = Unset
    /\ candidate = Unset
    /\ validation = Unset
    /\ revalidation = Unset
    /\ fault = Unset
    /\ ViewerIdle
    /\ AppIdle

Spec == Init /\ [][Next]_vars

----------------------------------------------------------------------------
(* Single records: every combination of present, absent and malformed      *)
(* required fields, and every shape of a point value                       *)

\* The required fields of each record code, in the order its constructor
\* asks for them, with what each holds.
RequiredFields(code) ==
    CASE code = CODE_RO ->
           <<[key |-> KEY_P1, holds |-> "point"],
             [key |-> KEY_P2, holds |-> "point"],
             [key |-> KEY_DN, holds |-> "text"]>>
      [] code = CODE_BOG ->
           <<[key |-> KEY_P1, holds |-> "point"],
             [key |-> KEY_P2, holds |-> "point"],
             [key |-> KEY_PT, holds |-> "point"],
             [key |-> KEY_DN, holds |-> "text"]>>
      [] code = CODE_TEE ->
           <<[key |-> KEY_PH1, holds |-> "point"],
             [key |-> KEY_PH2, holds |-> "point"],
             [key |-> KEY_PA1, holds |-> "point"],
             [key |-> KEY_PA2, holds |-> "point"],
             [key |-> KEY_DNH, holds |-> "text"],
             [key |-> KEY_DNA, holds |-> "text"]>>
      [] code = CODE_ARM ->
           <<[key |-> KEY_P1, holds |-> "point"],
             [key |-> KEY_P2, holds |-> "point"],
             [key |-> KEY_PM, holds |-> "point"],
             [key |-> KEY_DN1, holds |-> "text"],
             [key |-> KEY_DN2, holds |-> "text"]>>
      [] code = CODE_PROF ->
           <<[key |-> KEY_P1, holds |-> "point"],
             [key |-> KEY_P2, holds |-> "point"],
             [key |-> KEY_TYP, holds |-> "text"]>>
      [] code = CODE_RED ->
           <<[key |-> KEY_P1, holds |-> "point"],
             [key |-> KEY_P2, holds |-> "point"],
             [key |-> KEY_DN1, holds |-> "text"],
             [key |-> KEY_DN2, holds |-> "text"]>>
      [] code = CODE_DN ->
           <<[key |-> KEY_NAME, holds |-> "text"],
             [key |-> KEY_DA, holds |-> "number"]>>
      [] OTHER -> <<>>

\* What a required field is given: nothing (length 0), a good value or, for
\* points and numbers, a value its parser rejects.
FieldTexts(holds) ==
    CASE holds = "point"  -> {<<>>, <<quote(Origin)>>,
                              <<quote(<<"x", ",", "0", ",", "0">>)>>}
      [] holds = "text"   -> {<<>>, <<CodeA>>}
      [] holds = "number" -> {<<>>, <<<<"1", ".", "5">>>>, <<<<"x">>>>}

RECURSIVE fieldsFrom(_, _, _)
fieldsFrom(required, given, i) ==
    IF i > Len(required) THEN <<>>
    ELSE (IF given[i] = <<>> THEN <<>>
          ELSE <<keyValue(required[i].key, given[i][1])>>)
         \o fieldsFrom(required, given, i + 1)

PresenceLines(code) ==
    LET required == RequiredFields(code)
        options  == UNION {FieldTexts(h) : h \in {"point", "text", "number"}}
        givens   == {g \in [1..Len(required) -> options] :
                        \A i \in 1..Len(required) :
                            g[i] \in FieldTexts(required[i].holds)}
    IN  {recordLine(code, fieldsFrom(required, g, 1)) : g \in givens}

\* The texts of one component of a coordinate.
Components ==
    {<<"0">>, <<"1", ".", "5">>, <<"-", "2">>, <<" ", "3", " ">>,
     <<"1", "a">>, <<>>, <<"x">>, InfinityLiteral,
     <<"1", "e", "9", "9", "9">>}

\* Values of a point field: quoted texts of one to four components, and
\* unquoted texts.
QuotedPointTexts ==
    {quote(join(parts, <<",">>)) :
        parts \in [1..3 -> Components]
                  \cup UNION {[1..n -> {<<"0">>, <<>>}] : n \in {1, 2, 4}}}

UnquotedPointTexts ==
    {join(parts, <<",">>) : parts \in [1..3 -> {<<"0">>, <<"x">>, <<>>}]}
    \cup {Node1, <<>>, <<"'", "0", ",", "0", ",", "0">>}

PointLines ==
    {recordLine(CODE_RO, <<keyValue(KEY_P1, text),
                           keyValue(KEY_P2, Node1),
                           keyValue(KEY_DN, CodeA)>>) :
        text \in QuotedPointTexts \cup UnquotedPointTexts}

\* Records with a malformed optional field, and the other metadata codes.
LoneLines ==
    {recordLine(CODE_ARM, <<keyValue(KEY_P1, quote(Origin)),
                            keyValue(KEY_P2, quote(Along)),
                            keyValue(KEY_PM, quote(Corner)),
                            keyValue(KEY_DN1, CodeA),
                            keyValue(KEY_DN2, CodeA),
                            keyValue(KEY_GEW, <<"x">>)>>),
     recordLine(CODE_PROF, <<keyValue(KEY_P1, quote(Origin)),
                             keyValue(KEY_P2, Node1),
                             keyValue(KEY_TYP, <<"H">>),
                             keyValue(KEY_ACHSE, <<"x">>)>>),
     recordLine(CODE_DN, <<keyValue(KEY_NAME, CodeB),
                           keyValue(KEY_DA, <<"8", "9">>),
                           keyValue(KEY_S, <<"x">>)>>),
     \* a line that is a comment, and a comment record
     <<" ", "!", "x">>,
     recordLine(COMMENT_RECORD, <<<<"x">>>>)}
    \cup {recordLine(code, <<keyValue(<<"T">>, quote(<<"h", "i">>))>>) :
              code \in MetadataCodes}

RecordLines ==
    UNION {PresenceLines(code) : code \in ElementCodes \cup {CODE_DN}}
    \cup PointLines \cup SourceLines \cup LoneLines

InitRecords ==
    /\ pc = "start"
    /\ id \in FileIds
    /\ source \in RecordLines
    /\ records = Unset
    /\ issues = Unset
    /\ cursor = 0
    /\ elements = Unset
    /\ collectedIssues = Unset
    /\ nominalDiameters = Unset
    /\ result = Unset
    /\ candidate = Unset
    /\ validation = Unset
    /\ revalidation = Unset
    /\ fault = Unset
    /\ ViewerIdle
    /\ AppIdle

\* parseNtr on the source texts of a single record.
SpecRecords == InitRecords /\ [][Next]_vars

----------------------------------------------------------------------------
(* What parseNtr returns                                                   *)

\* The issue list of the result, of a success and of a failure alike.
returned == IF result.ok THEN result.value.issues ELSE result.error

\* The records handled so far whose constructor succeeds, and what they give.
builtFrom(n) ==
    LET built == [i \in 1..n |->
                     IF records[i].code \in ElementCodes
                     THEN parseElementRecord(records[i])
                     ELSE err(<<>>)]
        kept  == SelectSeq(built, LAMBDA r : r.ok)
    IN  [i \in 1..Len(kept) |-> kept[i].value]

failsAt(i) ==
    /\ records[i].code \in ElementCodes
    /\ ~parseElementRecord(records[i]).ok

succeedsAt(i) ==
    /\ records[i].code \in ElementCodes
    /\ parseElementRecord(records[i]).ok

emittedBy(i) ==
    LET record == records[i]
        entry  == parseNominalDiameterRecord(record)
        earlier(j) ==
            /\ records[j].code = CODE_DN
            /\ parseNominalDiameterRecord(records[j]).ok
            /\ parseNominalDiameterRecord(records[j]).value.code
                   = entry.value.code
    IN  IF record.code \in ElementCodes
        THEN (IF failsAt(i) THEN <<parseElementRecord(record).error>>
              ELSE <<>>)
        ELSE IF record.code = CODE_DN
        THEN (IF ~entry.ok THEN <<entry.error>>
              ELSE IF \E j \in 1..(i - 1) : earlier(j)
              THEN <<createIssue(CODE_DN, record.lineNumber,
                                 "Duplicate DN definition ignored",
                                 entry.value.code, "warning")>>
              ELSE <<>>)
        ELSE IF record.code \in MetadataCodes THEN <<>>
        ELSE <<createIssue(record.code, record.lineNumber,
                           "Unsupported record code", record.code,
                           "warning")>>

\* C3: the list parseNtr returns, in a success and in a failure, starts with
\* the issues of the lexer followed by the issues of the records, each once
\* and in order; what follows them are the issues of a failed validation,
\* and a success carries nothing else.
C3_AllIssuesReturned ==
    pc = "done" =>
        \A expected \in {lexNtr(source).issues
                          \o flatMap(emittedBy, 1, Len(records))} :
            /\ Len(returned) >= Len(expected)
            /\ SubSeq(returned, 1, Len(expected)) = expected
            /\ \A k \in (Len(expected) + 1)..Len(returned) :
                   returned[k].recordCode = CODE_VALIDATION
            /\ (~result.ok /\ ~hasError(collectedIssues))
                   <=> Len(returned) > Len(expected)

\* A failed validation whose result still starts with the earlier issues.
C3_Witness ==
    /\ pc = "done"
    /\ ~result.ok
    /\ collectedIssues # <<>>
    /\ Len(returned) > Len(collectedIssues)

\* The record code of each kind of element.
kindCode(kind) ==
    CASE kind = "RO"   -> CODE_RO
      [] kind = "BOG"  -> CODE_BOG
      [] kind = "TEE"  -> CODE_TEE
      [] kind = "ARM"  -> CODE_ARM
      [] kind = "PROF" -> CODE_PROF
      [] kind = "RED"  -> CODE_RED

\* The keys every element of the kind has.
RequiredKeys(kind) ==
    Range(ElementShape(kind)) \ OptionalKeys

onlyWellFormed ==
    \/ source = <<>>
    \/ \A line \in Range(split(source, "\n")) : line \in WellFormedLines

\* C4: a source text of well-formed element records only, parsed under a
\* file id that is not blank, succeeds without an error issue, and
\* file.elements has one element per record, in the order of the lines,
\* each of the kind of its record's code with all its required fields.
C4_WellFormedSucceeds ==
    (pc = "done" /\ trim(id) # <<>> /\ onlyWellFormed) =>
        /\ result.ok
        /\ ~hasError(returned)
        /\ LET built == result.value.file.elements
           IN  /\ Len(built) = Len(records)
               /\ source # <<>> => Len(built) = Len(split(source, "\n"))
               /\ \A i \in 1..Len(built) :
                      /\ records[i].lineNumber = i
                      /\ kindCode(built[i].kind) = records[i].code
                      /\ built[i].rawFields
                             = snapshotRawFields(createFieldMap(records[i]))
                      /\ RequiredKeys(built[i].kind) \subseteq DOMAIN built[i]
                      /\ \A key \in RequiredKeys(built[i].kind) \cap TextKeys :
                             built[i][key] # <<>>

\* Two well-formed records of different kinds, both in the returned file.
C4_Witness ==
    /\ pc = "done"
    /\ onlyWellFormed
    /\ result.ok
    /\ Len(result.value.file.elements) = 2
    /\ result.value.file.elements[1].kind
           # result.value.file.elements[2].kind

----------------------------------------------------------------------------
(* The table of nominal diameters                                          *)

\* Record i is a DN record that its constructor accepts.
definesAt(i) ==
    /\ records[i].code = CODE_DN
    /\ parseNominalDiameterRecord(records[i]).ok

definedAt(i) == parseNominalDiameterRecord(records[i]).value

\* Record j repeats the code of an earlier accepted DN record.
repeatsAt(j) ==
    /\ definesAt(j)
    /\ \E i \in 1..(j - 1) :
           definesAt(i) /\ definedAt(i).code = definedAt(j).code

DuplicateNotes ==
    SelectSeq(collectedIssues,
              LAMBDA w : w.message.tpl = "Duplicate DN definition ignored")

\* C8: when the records have been processed, the table maps each code
\* to the definition of the first accepted DN record with that code; each
\* later accepted DN record with the code has left one warning and nothing
\* else, and a text of accepted DN records only, duplicates included, parses
\* successfully.
C8_FirstDefinitionWins ==
    pc = "done" =>
        LET handled    == 1..(cursor - 1)
            defining   == {i \in handled : definesAt(i)}
            first(c)   == CHOOSE i \in defining :
                              /\ definedAt(i).code = c
                              /\ \A k \in defining :
                                     definedAt(k).code = c => i <= k
            duplicates == {j \in handled : repeatsAt(j)}
        IN  /\ DOMAIN nominalDiameters
                   = {definedAt(i).code : i \in defining}
            /\ \A c \in DOMAIN nominalDiameters :
                   nominalDiameters[c] = definedAt(first(c)).definition
            /\ Len(DuplicateNotes) = Cardinality(duplicates)
            /\ \A k \in 1..Len(DuplicateNotes) :
                   /\ DuplicateNotes[k].severity = "warning"
                   /\ \E j \in duplicates :
                          /\ DuplicateNotes[k].lineNumber
                                 = records[j].lineNumber
                          /\ DuplicateNotes[k].message.arg = definedAt(j).code
            /\ (/\ trim(id) # <<>>
                /\ \A i \in 1..Len(records) : definesAt(i))
               => /\ result.ok
                  /\ result.value.file.definitions.nominalDiameters
                         = nominalDiameters

\* A code defined twice with different diameters, in a parse that succeeds.
C8_Witness ==
    /\ pc = "done"
    /\ result.ok
    /\ \E j \in 1..Len(records) :
           /\ repeatsAt(j)
           /\ \E i \in 1..(j - 1) :
                  /\ definesAt(i)
                  /\ definedAt(i).code = definedAt(j).code
                  /\ definedAt(i).definition # definedAt(j).definition

\* Two codes that differ at most in letter case and surrounding white space.
sameCode(a, b) == toUpperCase(trim(a)) = toUpperCase(trim(b))

\* The nominal-diameter codes an element refers to.
DiameterKeys ==
    {"nominalDiameter", "mainNominalDiameter", "branchNominalDiameter",
     "inletDiameter", "outletDiameter"}

\* C9: no two keys of the table differ only in letter case or surrounding
\* white space, and in a returned file the code of an element that differs
\* from a key of the table only in that way resolves to that definition's
\* outside diameter.
C9_CodesNormalized ==
    /\ pc \in {"loop", "done"} =>
           \A a, b \in DOMAIN nominalDiameters : sameCode(a, b) => a = b
    /\ (pc = "done" /\ result.ok) =>
           LET parsed == result.value.file
               table  == parsed.definitions.nominalDiameters
           IN  \A i \in 1..Len(parsed.elements) :
               \A key \in DiameterKeys \cap DOMAIN parsed.elements[i] :
               \A name \in DOMAIN table :
                   sameCode(parsed.elements[i][key], name)
                   => lookupOuterDiameter(table, parsed.elements[i][key])
                          = <<table[name].outsideDiameter>>

----------------------------------------------------------------------------
(* Records of other codes                                                  *)

\* The issues already collected that carry the line of record i.
notesOf(i, severities) ==
    SelectSeq(collectedIssues,
              LAMBDA w : /\ w.lineNumber = records[i].lineNumber
                         /\ w.severity \in severities)

otherAt(i) == records[i].code \notin ElementCodes \cup {CODE_DN}

\* C10, as claimed: every record of another code, a metadata code included,
\* has added exactly one warning with its code and line number.
C10_EveryOtherCodeWarns ==
    pc \in {"loop", "done"} =>
        \A i \in 1..(cursor - 1) :
            otherAt(i) =>
                /\ Len(notesOf(i, {"warning"})) = 1
                /\ notesOf(i, {"warning"})[1].recordCode = records[i].code

\* C10, amended: a record of an unrecognized code adds exactly one warning
\* with its code and line number; a record of a metadata code (GEN, AUFT,
\* TEXT, LAST, IS) adds no issue at all; neither adds an element or an
\* error, and a text of such records alone parses successfully.
C10_UnsupportedWarns ==
    pc = "done" =>
        /\ \A i \in 1..(cursor - 1) :
               otherAt(i) =>
                   /\ Len(notesOf(i, {"warning"}))
                          = (IF records[i].code \in MetadataCodes
                             THEN 0 ELSE 1)
                   /\ \A k \in 1..Len(notesOf(i, {"warning"})) :
                          notesOf(i, {"warning"})[k].recordCode
                              = records[i].code
                   /\ \A k \in 1..Len(notesOf(i, {"error"})) :
                          \E n \in 1..Len(issues) :
                              issues[n] = notesOf(i, {"error"})[k]
        /\ Len(elements)
               = Cardinality({i \in 1..(cursor - 1) : ~otherAt(i)
                                                       /\ succeedsAt(i)})
        /\ (/\ trim(id) # <<>>
            /\ issues = <<>>
            /\ \A i \in 1..Len(records) : otherAt(i))
           => result.ok /\ result.value.file.elements = <<>>

\* A metadata record and a record of an unrecognized code, in a parse that
\* succeeds.
C10_Witness ==
    /\ pc = "done"
    /\ result.ok
    /\ \E i \in 1..Len(records) : records[i].code \in MetadataCodes
    /\ \E i \in 1..Len(records) :
           otherAt(i) /\ records[i].code \notin MetadataCodes

----------------------------------------------------------------------------
(* Required fields                                                         *)

\* The required keys record i has no field for.
missingKeys(i) ==
    LET required == RequiredFields(records[i].code)
    IN  {required[k].key : k \in 1..Len(required)}
        \ DOMAIN createFieldMap(records[i])

\* The issues pushed while interpreting that carry the line of record i.
ownIssues(i) ==
    SelectSeq(SubSeq(collectedIssues, Len(issues) + 1, Len(collectedIssues)),
              LAMBDA w : w.lineNumber = records[i].lineNumber)

\* Nothing was built from the records that lack a required key.
nothingFromLacking ==
    Len(elements) + Cardinality(DOMAIN nominalDiameters)
        <= Cardinality({j \in 1..(cursor - 1) : missingKeys(j) = {}})

\* What reading required field k of record i gives.
readRequired(i, k) ==
    LET required == RequiredFields(records[i].code)[k]
        map      == createFieldMap(records[i])
    IN  CASE required.holds = "point" ->
               requirePoint(records[i], map, required.key)
          [] required.holds = "number" ->
               requireNumericField(records[i], map, required.key)
          [] required.holds = "text" ->
               requireField(records[i], map, required.key)

\* C2, as claimed: a record that lacks required keys gives no element or
\* definition and exactly one error issue, with the record's code and line
\* number, whose message names a missing required key.
C2_NamesMissingKey ==
    pc \in {"loop", "done"} =>
        /\ nothingFromLacking
        /\ \A i \in 1..(cursor - 1) :
               missingKeys(i) # {} =>
                   /\ Len(ownIssues(i)) = 1
                   /\ ownIssues(i)[1].severity = "error"
                   /\ ownIssues(i)[1].recordCode = records[i].code
                   /\ ownIssues(i)[1].lineNumber = records[i].lineNumber
                   /\ ownIssues(i)[1].message.tpl = "Missing required field"
                   /\ ownIssues(i)[1].message.arg \in missingKeys(i)

\* C2, amended: a record that lacks required keys gives no element or
\* definition and exactly one error issue, with the record's code and line
\* number, however many keys are missing.  The issue is that of the first
\* required field, in the order the constructor reads them, that is missing
\* or invalid: it names the missing key when that field is missing, and
\* otherwise reports the invalid value of the earlier field.
C2_FirstFailingFieldReported ==
    pc \in {"loop", "done"} =>
        /\ nothingFromLacking
        /\ \A i \in 1..(cursor - 1) :
               missingKeys(i) # {} =>
                   LET required == RequiredFields(records[i].code)
                       failing  == {k \in 1..Len(required) :
                                       ~readRequired(i, k).ok}
                       first    == CHOOSE k \in failing :
                                       \A n \in failing : k <= n
                       issue    == ownIssues(i)[1]
                   IN  /\ Len(ownIssues(i)) = 1
                       /\ issue.severity = "error"
                       /\ issue.recordCode = records[i].code
                       /\ issue.lineNumber = records[i].lineNumber
                       /\ issue.message.arg = required[first].key
                       /\ IF required[first].key \in missingKeys(i)
                          THEN issue.message.tpl = "Missing required field"
                          ELSE issue.message.tpl
                                   \in {"Invalid coordinate for field",
                                        "Missing coordinate value for",
                                        "Invalid numeric value for field"}

\* A record that lacks two required keys and has left the issue that names
\* the first of them.
C2_Witness ==
    /\ pc = "done"
    /\ Len(records) = 1
    /\ Cardinality(missingKeys(1)) >= 2
    /\ Len(ownIssues(1)) = 1
    /\ ownIssues(1)[1].message.tpl = "Missing required field"

----------------------------------------------------------------------------
(* Point fields                                                            *)

\* The text is, as a whole, a decimal literal: sign, digits with or without
\* a fraction, exponent.
wholeLiteral(text) ==
    LET body     == afterSign(text)
        ip       == digitPrefix(body)
        rest     == SubSeq(body, Len(ip) + 1, Len(body))
        fp       == fractionDigits(rest)
        tail     == afterFraction(rest)
        exponent == afterSign(Tail(tail))
    IN  /\ ip # <<>> \/ fp # <<>>
        /\ \/ tail = <<>>
           \/ /\ Head(tail) \in {"e", "E"}
              /\ exponent # <<>>
              /\ digitPrefix(exponent) = exponent

\* The component is, in its entirety, a finite number.
wholeFinite(component) ==
    /\ wholeLiteral(trim(component))
    /\ isFinite(parseFloat(trim(component)))

threeNumbers(value) ==
    /\ Len(split(value, ",")) = 3
    /\ \A n \in 1..3 : wholeFinite(split(value, ",")[n])

\* C7: the start of a pipe is a coordinate only when P1 is quoted and holds
\* exactly three components that are each, as a whole, a finite number; a
\* quoted P1 of any other form gives no element and the one error issue
\* 'Invalid coordinate' for P1.
C7_OnlyWholeFiniteNumbers ==
    (/\ pc \in {"loop", "done"}
     /\ cursor = 2
     /\ records[1].code = CODE_RO
     /\ issues = <<>>
     /\ KEY_P1 \in DOMAIN createFieldMap(records[1])) =>
        LET fld == createFieldMap(records[1])[KEY_P1]
        IN  /\ (elements # <<>> /\ elements[1].start.kind = "coordinate")
                   => fld.quoted /\ threeNumbers(fld.value)
            /\ (fld.quoted /\ ~threeNumbers(fld.value))
                   => /\ elements = <<>>
                      /\ Len(collectedIssues) = 1
                      /\ collectedIssues[1].severity = "error"
                      /\ collectedIssues[1].message
                             = [tpl |-> "Invalid coordinate for field",
                                arg |-> KEY_P1]

----------------------------------------------------------------------------
(* validateNtrFile called on its own: the documents it is given            *)

\* Most changes made to the tidy document.
MaxChanges == 2

without(r, key) == [k \in DOMAIN r \ {key} |-> r[k]]
with(r, key, value) == (key :> value) @@ r

\* The point x,0,0 and the elements of the tidy document: a pipe, a fitting
\* and a tee as the constructors build them.
pointAt(x) ==
    createCoordinatePoint([x |-> makeNumber(1, x, 0),
                           y |-> makeNumber(1, 0, 0),
                           z |-> makeNumber(1, 0, 0)])

TidyElements ==
    <<[kind            |-> "RO",
       rawFields       |-> (KEY_DN :> CodeA),
       start           |-> pointAt(0),
       end             |-> pointAt(5),
       nominalDiameter |-> asNominalDiameterCode(CodeA),
       material        |-> asMaterialCode(<<"S", "T">>),
       loadCases       |-> <<asLoadCaseCode(<<"L", "1">>),
                             asLoadCaseCode(<<"L", "2">>)>>,
       pipeline        |-> asPipelineCode(<<"P", " ", "1">>)],
      [kind           |-> "ARM",
       rawFields      |-> (KEY_GEW :> <<"1", "2", ".", "5">>),
       start          |-> pointAt(0),
       end            |-> pointAt(5),
       center         |-> pointAt(1),
       inletDiameter  |-> asNominalDiameterCode(CodeA),
       outletDiameter |-> asNominalDiameterCode(CodeA),
       loadCases      |-> <<>>,
       weight         |-> asKilograms(makeNumber(1, 125, -1))],
      [kind        |-> "TEE",
       rawFields   |-> (KEY_PH2 :> Node1),
       mainStart   |-> pointAt(0),
       mainEnd     |-> createNamedPoint(asNodeId(Node1)),
       branchStart |-> pointAt(1),
       branchEnd   |-> pointAt(5),
       mainNominalDiameter   |-> asNominalDiameterCode(CodeA),
       branchNominalDiameter |-> asNominalDiameterCode(CodeB),
       loadCases   |-> <<>>,
       teeType     |-> asString(<<"H">>)]>>

\* The warning of the tidy document, and a text that is blank.
TidyIssue ==
    createIssue(<<"X", "X">>, 3, "Unsupported record code", <<"X", "X">>,
                "warning")
Blank == <<" ">>

\* A document the validator accepts as it is: a pipe, a fitting and a tee,
\* the diameter they refer to, and a warning.
TidyDocument ==
    assembleFile(<<"f", ".", "n", "t", "r">>,
                 CodeA :> [outsideDiameter |-> makeNumber(1, 1683, -1)],
                 TidyElements,
                 <<TidyIssue>>)

definitionsOf(doc) ==
    IF "definitions" \in DOMAIN doc THEN doc.definitions
    ELSE [nominalDiameters |-> <<>>]

withEntry(doc, name, definition) ==
    with(doc, "definitions",
         with(definitionsOf(doc), "nominalDiameters",
              (name :> definition) @@ definitionsOf(doc).nominalDiameters))

withElement(doc, i, key, value) ==
    with(doc, "elements",
         [doc.elements EXCEPT ![i] = with(doc.elements[i], key, value)])

withIssue(doc, issue) == with(doc, "issues", <<issue>>)

\* The changes, the harmless ones first: a change that breaks the schema
\* names the part it breaks, the index of the element or issue and the name of
\* the table entry.
Changes ==
    <<[name |-> "padded id",            part |-> ""],
      [name |-> "padded code",          part |-> ""],
      [name |-> "padded node",          part |-> ""],
      [name |-> "padded load case",     part |-> ""],
      [name |-> "padded table key",     part |-> ""],
      [name |-> "padded issue",         part |-> ""],
      [name |-> "project name",         part |-> ""],
      [name |-> "no defaults",          part |-> ""],
      [name |-> "no metadata",          part |-> ""],
      [name |-> "no definitions",       part |-> ""],
      [name |-> "no issues",            part |-> ""],
      [name |-> "blank id",             part |-> "id"],
      [name |-> "metadata key",         part |-> "metadata"],
      [name |-> "blank project name",   part |-> "metadata"],
      [name |-> "infinite diameter",    part |-> "definitions"],
      [name |-> "definition key",       part |-> "definitions"],
      [name |-> "no diameter",          part |-> "definitions"],
      [name |-> "definitions key",      part |-> "definitions"],
      [name |-> "empty code",           part |-> "elements"],
      [name |-> "infinite coordinate",  part |-> "elements"],
      [name |-> "blank load case",      part |-> "elements"],
      [name |-> "unknown kind",         part |-> "elements"],
      [name |-> "element key",          part |-> "elements"],
      [name |-> "negative weight",      part |-> "elements"],
      [name |-> "no start",             part |-> "elements"],
      [name |-> "blank node",           part |-> "elements"],
      [name |-> "line zero",            part |-> "issues"],
      [name |-> "blank record code",    part |-> "issues"],
      [name |-> "issue key",            part |-> "issues"],
      [name |-> "no severity",          part |-> "issues"],
      [name |-> "blank message",        part |-> "issues"]>>

\* Where in its part a change breaks the schema.
indexOfChange(name) ==
    CASE name \in {"empty code", "infinite coordinate", "blank load case"}
           -> 1
      [] name \in {"unknown kind", "element key", "negative weight"} -> 2
      [] name \in {"no start", "blank node"} -> 3
      [] name \in {"line zero", "blank record code", "issue key",
                   "no severity", "blank message"} -> 1
      [] OTHER -> 0

entryOfChange(name) ==
    CASE name = "infinite diameter" -> <<"C">>
      [] name = "definition key"    -> <<"D">>
      [] name = "no diameter"       -> <<"E">>
      [] OTHER -> <<>>

applyChange(doc, name) ==
    CASE name = "padded id" -> with(doc, "id", <<" ">> \o doc.id \o <<" ">>)
      [] name = "padded code" ->
           withElement(doc, 1, "nominalDiameter",
                       <<" ", " ", "A", " ", " ">>)
      [] name = "padded node" ->
           withElement(doc, 3, "mainEnd",
                       [kind |-> "named", id |-> <<" ", "N", "1", " ">>])
      [] name = "padded load case" ->
           withElement(doc, 1, "loadCases", <<<<" ", "L", "1">>>>)
      [] name = "padded table key" ->
           withEntry(doc, <<" ", "B", " ">>,
                     [outsideDiameter |-> makeNumber(1, 89, 0),
                      thickness       |-> makeNumber(1, 4, 0)])
      [] name = "padded issue" ->
           withIssue(doc, [TidyIssue EXCEPT
                              !.recordCode = <<" ", "X", " ">>,
                              !.message = [tpl |-> "",
                                           arg |-> <<" ", "n", "o", " ">>]])
      [] name = "project name" ->
           with(doc, "metadata", [projectName |-> <<" ", "P", " ">>])
      [] name = "no defaults" ->
           with(doc, "elements",
                [doc.elements EXCEPT
                    ![1] = without(without(doc.elements[1], "rawFields"),
                                   "loadCases")])
      [] name = "no metadata"    -> without(doc, "metadata")
      [] name = "no definitions" -> without(doc, "definitions")
      [] name = "no issues"      -> without(doc, "issues")
      [] name = "blank id"       -> with(doc, "id", Blank)
      [] name = "metadata key" ->
           with(doc, "metadata", [author |-> <<"x">>])
      [] name = "blank project name" ->
           with(doc, "metadata", [projectName |-> Blank])
      [] name = "infinite diameter" ->
           withEntry(doc, entryOfChange(name),
                     [outsideDiameter |-> Infinity(1)])
      [] name = "definition key" ->
           withEntry(doc, entryOfChange(name),
                     [outsideDiameter |-> makeNumber(1, 1, 0),
                      colour          |-> <<"x">>])
      [] name = "no diameter" ->
           withEntry(doc, entryOfChange(name),
                     [thickness |-> makeNumber(1, 1, 0)])
      [] name = "definitions key" ->
           with(doc, "definitions",
                with(definitionsOf(doc), "units", <<"m", "m">>))
      [] name = "empty code" -> withElement(doc, 1, "nominalDiameter", <<>>)
      [] name = "infinite coordinate" ->
           withElement(doc, 1, "start",
                       createCoordinatePoint(
                           [x |-> Infinity(-1), y |-> makeNumber(1, 0, 0),
                            z |-> makeNumber(1, 0, 0)]))
      [] name = "blank load case" ->
           withElement(doc, 1, "loadCases", <<<<"L", "1">>, Blank>>)
      [] name = "unknown kind" -> withElement(doc, 2, "kind", "XX")
      [] name = "element key" -> withElement(doc, 2, "colour", <<"x">>)
      [] name = "negative weight" ->
           withElement(doc, 2, "weight", makeNumber(-1, 1, 0))
      [] name = "no start" ->
           with(doc, "elements",
                [doc.elements EXCEPT
                    ![3] = without(doc.elements[3], "mainStart")])
      [] name = "blank node" ->
           withElement(doc, 3, "mainEnd", [kind |-> "named", id |-> Blank])
      [] name = "line zero" ->
           withIssue(doc, [TidyIssue EXCEPT !.lineNumber = 0])
      [] name = "blank record code" ->
           withIssue(doc, [TidyIssue EXCEPT !.recordCode = Blank])
      [] name = "issue key" -> withIssue(doc, with(TidyIssue, "hint", <<"x">>))
      [] name = "no severity" -> withIssue(doc, without(TidyIssue, "severity"))
      [] name = "blank message" ->
           withIssue(doc, [TidyIssue EXCEPT
                              !.message = [tpl |-> "", arg |-> Blank]])

\* The tidy document after the chosen changes, made in the order of Changes.
RECURSIVE changed(_, _)
changed(doc, chosen) ==
    IF chosen = {} THEN doc
    ELSE LET n == CHOOSE m \in chosen : \A k \in chosen : m <= k
         IN  changed(applyChange(doc, Changes[n].name), chosen \ {n})

\* The parts the chosen changes break.
broken(chosen) ==
    {[part  |-> Changes[n].part,
      index |-> indexOfChange(Changes[n].name),
      name  |-> entryOfChange(Changes[n].name)] :
        n \in {m \in chosen : Changes[m].part # ""}}

\* The sets of at most k changes.
RECURSIVE choicesOf(_)
choicesOf(k) ==
    IF k = 0 THEN {{}}
    ELSE LET fewer == choicesOf(k - 1)
         IN  fewer \cup {chosen \cup {n} :
                            chosen \in fewer, n \in 1..Len(Changes)}

Choices == choicesOf(MaxChanges)

\* Records the constructors accept with a value the schemas do not.
GateLines ==
    {recordLine(CODE_ARM, <<keyValue(KEY_P1, quote(Origin)),
                            keyValue(KEY_P2, quote(Along)),
                            keyValue(KEY_PM, quote(Corner)),
                            keyValue(KEY_DN1, CodeA),
                            keyValue(KEY_DN2, CodeA),
                            keyValue(KEY_GEW, <<"-", "1">>)>>),
     recordLine(CODE_RO, <<keyValue(KEY_P1, quote(InfinityLiteral
                                                  \o <<",", "0", ",", "0">>)),
                           keyValue(KEY_P2, Node1),
                           keyValue(KEY_DN, CodeA)>>),
     recordLine(CODE_DN, <<keyValue(KEY_NAME, CodeA),
                           keyValue(KEY_DA, <<"1", "e", "9", "9", "9">>)>>),
     \* an empty material and an empty description
     recordLine(CODE_RO, <<keyValue(KEY_P1, quote(Origin)),
                           keyValue(KEY_P2, quote(Along)),
                           keyValue(KEY_DN, CodeA),
                           keyValue(KEY_MAT, <<>>)>>),
     recordLine(CODE_RED, <<keyValue(KEY_P1, quote(Origin)),
                            keyValue(KEY_P2, quote(Along)),
                            keyValue(KEY_DN1, CodeA),
                            keyValue(KEY_DN2, CodeB),
                            keyValue(KEY_TEXT, quote(<<" ">>))>>)}

\* The application calls validateNtrFile on a document of its own.
Validate ==
    /\ pc = "call"
    /\ validation' = validateNtrFile(candidate)
    /\ pc' = "validated"
    /\ UNCHANGED <<id, source, records, issues, cursor, elements,
                   collectedIssues, nominalDiameters, result, candidate,
                   revalidation, fault, viewerVars, appVars>>

\* The document a validation has returned is validated again.
Revalidate ==
    /\ \/ pc = "validated"
       \/ pc = "done" /\ result.ok
    /\ validation.ok
    /\ revalidation' = validateNtrFile(validation.value)
    /\ pc' = "revalidated"
    /\ UNCHANGED <<id, source, records, issues, cursor, elements,
                   collectedIssues, nominalDiameters, result, candidate,
                   validation, fault, viewerVars, appVars>>

NextValidate == Next \/ Validate \/ Revalidate

\* Either parseNtr is about to run on a text of one line, or validateNtrFile
\* is about to be called on a changed document.
InitValidate ==
    /\ id \in FileIds
    /\ records = Unset
    /\ issues = Unset
    /\ cursor = 0
    /\ elements = Unset
    /\ collectedIssues = Unset
    /\ nominalDiameters = Unset
    /\ result = Unset
    /\ validation = Unset
    /\ revalidation = Unset
    /\ ViewerIdle
    /\ AppIdle
    /\ \/ /\ pc = "start"
          /\ source \in SourceLines \cup GateLines
          /\ candidate = Unset
          /\ fault = {}
       \/ /\ pc = "call"
          /\ source = <<>>
          /\ id = <<" ">>
          /\ \E chosen \in Choices :
                 /\ candidate = changed(TidyDocument, chosen)
                 /\ fault = broken(chosen)

SpecValidate == InitValidate /\ [][NextValidate]_vars

----------------------------------------------------------------------------
(* The validator as the gate                                               *)

\* The document has every part, with as many elements, issues and table
\* entries as the candidate it was made from.
completeFrom(doc, from) ==
    /\ DOMAIN doc = Range(FileShape)
    /\ trim(doc.id) # <<>>
    /\ Len(doc.elements) = Len(from.elements)
    /\ Len(doc.issues) = (IF "issues" \in DOMAIN from THEN Len(from.issues)
                          ELSE 0)
    /\ DOMAIN doc.definitions.nominalDiameters
           = {trim(name) :
                 name \in DOMAIN definitionsOf(from).nominalDiameters}
    /\ \A i \in 1..Len(doc.elements) :
           /\ doc.elements[i].kind = from.elements[i].kind
           /\ RequiredKeys(doc.elements[i].kind) \subseteq
                  DOMAIN doc.elements[i]

unsoundPoint(p) ==
    IF p.kind = "named" THEN trim(p.id) = <<>>
    ELSE \E axis \in {"x", "y", "z"} : p.position[axis].nk # "fin"

\* The candidate parseNtr has assembled holds one of the violations the
\* schema is there to stop: a blank id, an empty code, a point or a diameter
\* that is not finite, a negative weight.
unsound(doc) ==
    \/ trim(doc.id) = <<>>
    \/ \E name \in DOMAIN doc.definitions.nominalDiameters :
           doc.definitions.nominalDiameters[name].outsideDiameter.nk # "fin"
    \/ \E i \in 1..Len(doc.elements) :
           LET e == doc.elements[i]
           IN  \/ \E key \in DiameterKeys \cap DOMAIN e : trim(e[key]) = <<>>
               \/ \E key \in PointKeys \cap DOMAIN e : unsoundPoint(e[key])
               \/ "weight" \in DOMAIN e /\ e.weight.m < 0

pointsInto(path, part) ==
    /\ path.part = part.part
    /\ path.index = part.index
    /\ part.name # <<>> => path.name = part.name

\* C5: validateNtrFile returns either a success with a complete document or
\* a failure with issues and no document; when a part of the candidate
\* breaks the schema the result is a failure whose first issue's path points
\* into a part that does, and parseNtr returns a failure, without a
\* document, whenever the document it has assembled breaks the schema.
C5_HardGate ==
    /\ pc \in {"validated", "revalidated"} =>
           IF fault = {}
           THEN /\ validation.ok
                /\ DOMAIN validation = {"ok", "value"}
                /\ completeFrom(validation.value, candidate)
           ELSE /\ ~validation.ok
                /\ DOMAIN validation = {"ok", "error"}
                /\ validation.error.issues # <<>>
                /\ \E part \in fault :
                       pointsInto(validation.error.issues[1].path, part)
    /\ (pc = "done" /\ ~hasError(collectedIssues)) =>
           /\ unsound(candidate) =>
                  /\ ~result.ok
                  /\ DOMAIN result = {"ok", "error"}
                  /\ ~validation.ok
           /\ result.ok => completeFrom(result.value.file, candidate)

\* Two parts of the candidate break the schema and the validation has failed.
C5_Witness ==
    /\ pc = "validated"
    /\ Cardinality(fault) = 2
    /\ ~validation.ok

\* C6: the document of a successful validation is accepted by a second
\* validation, which returns a document equal to it.
C6_Idempotent ==
    pc = "revalidated" =>
        /\ revalidation.ok
        /\ revalidation.value = validation.value

\* The first validation has changed the candidate, the second has run.
C6_Witness ==
    /\ pc = "revalidated"
    /\ fault = {}
    /\ candidate.elements[1].nominalDiameter
           # validation.value.elements[1].nominalDiameter

----------------------------------------------------------------------------
(* viewer/sceneGraph.ts: buildSceneGraph                                   *)
(*                                                                         *)
(* buildSceneGraph maps the elements of a file to scene elements and folds *)
(* the scene position of every coordinate point into a bounds builder.     *)
(* The model takes one step per resolvePoint call and one per element      *)
(* returned by convertElement, so that the builder is observable between   *)
(* two points.  A property of a scene element that may be undefined is a   *)
(* sequence of length 0 or 1.                                              *)

RECURSIVE pow10(_)
pow10(n) == IF n = 0 THEN 1 ELSE 10 * pow10(n - 1)

\* a < b on numbers that are not NaN.
lessThan(a, b) ==
    IF a.nk = "inf" THEN a.m < 0 /\ ~(b.nk = "inf" /\ b.m < 0)
    ELSE IF b.nk = "inf" THEN b.m > 0
    ELSE LET low == IF a.e < b.e THEN a.e ELSE b.e
         IN  a.m * pow10(a.e - low) < b.m * pow10(b.e - low)

\* Math.min and Math.max of two numbers.
mathMin(a, b) ==
    IF isNaN(a) \/ isNaN(b) THEN NaN ELSE IF lessThan(b, a) THEN b ELSE a

mathMax(a, b) ==
    IF isNaN(a) \/ isNaN(b) THEN NaN ELSE IF lessThan(a, b) THEN b ELSE a

\* transformVector with the two swapped components left in place.
transformVectorUnswapped(position) ==
    [x |-> position.x, y |-> position.y, z |-> position.z]

\* transformVector: the scene position of a source position.
transformVector(position) ==
    [x |-> position.x, y |-> position.z, z |-> position.y]

\* resolvePoint's return value; its call of builder.add is in ResolvePoint.
resolvePoint(point) ==
    IF point.kind = "coordinate"
    THEN [kind          |-> "coordinate",
          position      |-> point.position,
          scenePosition |-> transformVector(point.position)]
    ELSE [kind |-> "unresolved", reference |-> point.id]

\* The builder's add that keeps an earlier min and max when a position
\* lies outside them.
addWithin(box, position) ==
    IF box.min = <<>> \/ box.max = <<>>
    THEN [min |-> <<position>>, max |-> <<position>>]
    ELSE box

\* createBoundsBuilder, add: the builder's min and max after add(position).
add(box, position) ==
    IF box.min = <<>> \/ box.max = <<>>
    THEN [min |-> <<position>>, max |-> <<position>>]
    ELSE [min |-> <<[x |-> mathMin(box.min[1].x, position.x),
                     y |-> mathMin(box.min[1].y, position.y),
                     z |-> mathMin(box.min[1].z, position.z)]>>,
          max |-> <<[x |-> mathMax(box.max[1].x, position.x),
                     y |-> mathMax(box.max[1].y, position.y),
                     z |-> mathMax(box.max[1].z, position.z)]>>]

\* createBoundsBuilder, value: null is the empty sequence.
value(box) ==
    IF box.min = <<>> \/ box.max = <<>> THEN <<>>
    ELSE <<[min |-> box.min[1], max |-> box.max[1]]>>

\* element[key], of length 0 when the property is undefined.
optionalOf(element, key) ==
    IF key \in DOMAIN element THEN <<element[key]>> ELSE <<>>

baseProps(sceneId, element) ==
    [id           |-> sceneId,
     material     |-> optionalOf(element, "material"),
     loadCases    |-> optionalOf(element, "loadCases"),
     description  |-> optionalOf(element, "description"),
     reference    |-> optionalOf(element, "reference"),
     pipeline     |-> optionalOf(element, "pipeline"),
     componentTag |-> optionalOf(element, "componentTag"),
     norm         |-> optionalOf(element, "norm"),
     series       |-> optionalOf(element, "series"),
     schedule     |-> optionalOf(element, "schedule"),
     source       |-> element]

\* The points an element's converter resolves, in the order of its
\* resolvePoint calls.
pointsOf(element) ==
    CASE element.kind = "RO"   -> <<element.start, element.end>>
      [] element.kind = "PROF" ->
             <<element.start, element.end>>
             \o optionalOf(element, "axisDirection")
      [] element.kind = "BOG"  ->
             <<element.start, element.end, element.tangent>>
      [] element.kind = "TEE"  ->
             <<element.mainStart, element.mainEnd, element.branchStart,
               element.branchEnd>>
      [] element.kind = "ARM"  ->
             <<element.start, element.end, element.center>>
      [] element.kind = "RED"  -> <<element.start, element.end>>

\* The converters take the points already resolved, in the order of
\* pointsOf.
convertStraightPipe(element, sceneId, resolved, lookup) ==
    [kind |-> "RO"] @@ baseProps(sceneId, element)
    @@ [start           |-> resolved[1],
        end             |-> resolved[2],
        nominalDiameter |-> element.nominalDiameter,
        outerDiameter   |->
            lookupOuterDiameter(lookup, element.nominalDiameter)]

convertProfile(element, sceneId, resolved) ==
    [kind |-> "PROF"] @@ baseProps(sceneId, element)
    @@ [profileType   |-> element.profileType,
        axis          |-> optionalOf(element, "axis"),
        start         |-> resolved[1],
        end           |-> resolved[2],
        axisDirection |-> IF "axisDirection" \in DOMAIN element
                          THEN <<resolved[3]>> ELSE <<>>]

convertBend(element, sceneId, resolved, lookup) ==
    [kind |-> "BOG"] @@ baseProps(sceneId, element)
    @@ [nominalDiameter |-> element.nominalDiameter,
        start           |-> resolved[1],
        end             |-> resolved[2],
        tangent         |-> resolved[3],
        outerDiameter   |->
            lookupOuterDiameter(lookup, element.nominalDiameter)]

convertTee(element, sceneId, resolved, lookup) ==
    [kind |-> "TEE"] @@ baseProps(sceneId, element)
    @@ [mainStart             |-> resolved[1],
        mainEnd               |-> resolved[2],
        branchStart           |-> resolved[3],
        branchEnd             |-> resolved[4],
        mainNominalDiameter   |-> element.mainNominalDiameter,
        branchNominalDiameter |-> element.branchNominalDiameter,
        teeType               |-> optionalOf(element, "teeType"),
        mainOuterDiameter     |->
            lookupOuterDiameter(lookup, element.mainNominalDiameter),
        branchOuterDiameter   |->
            lookupOuterDiameter(lookup, element.branchNominalDiameter)]

convertArm(element, sceneId, resolved, lookup) ==
    [kind |-> "ARM"] @@ baseProps(sceneId, element)
    @@ [start               |-> resolved[1],
        end                 |-> resolved[2],
        center              |-> resolved[3],
        inletDiameter       |-> element.inletDiameter,
        outletDiameter      |-> element.outletDiameter,
        inletOuterDiameter  |->
            lookupOuterDiameter(lookup, element.inletDiameter),
        outletOuterDiameter |->
            lookupOuterDiameter(lookup, element.outletDiameter),
        weight              |-> optionalOf(element, "weight")]

convertReducer(element, sceneId, resolved, lookup) ==
    [kind |-> "RED"] @@ baseProps(sceneId, element)
    @@ [start               |-> resolved[1],
        end                 |-> resolved[2],
        inletDiameter       |-> element.inletDiameter,
        outletDiameter      |-> element.outletDiameter,
        inletOuterDiameter  |->
            lookupOuterDiameter(lookup, element.inletDiameter),
        outletOuterDiameter |->
            lookupOuterDiameter(lookup, element.outletDiameter)]

convertElement(element, sceneId, resolved, lookup) ==
    CASE element.kind = "RO"   ->
             convertStraightPipe(element, sceneId, resolved, lookup)
      [] element.kind = "PROF" -> convertProfile(element, sceneId, resolved)
      [] element.kind = "BOG"  ->
             convertBend(element, sceneId, resolved, lookup)
      [] element.kind = "TEE"  ->
             convertTee(element, sceneId, resolved, lookup)
      [] element.kind = "ARM"  ->
             convertArm(element, sceneId, resolved, lookup)
      [] element.kind = "RED"  ->
             convertReducer(element, sceneId, resolved, lookup)

\* The decimal digits of a natural number, as a template literal prints it.
RECURSIVE indexText(_)
indexText(n) ==
    LET digit == <<"0", "1", "2", "3", "4", "5", "6", "7", "8", "9">>
    IN  IF n < 10 THEN <<digit[n + 1]>>
        ELSE indexText(n \div 10) \o <<digit[(n % 10) + 1]>>

\* The ids count from one instead of from zero.
elementIdFromOne(index) ==
    <<"e", "l", "e", "m", "e", "n", "t", "-">> \o indexText(index + 1)

\* `element-${index}`
elementId(index) ==
    <<"e", "l", "e", "m", "e", "n", "t", "-">> \o indexText(index)

----------------------------------------------------------------------------
(* buildSceneGraph as a state machine                                      *)

\* The element file.elements.map is at; elementIndex is the map's index.
currentElement == file.elements[elementIndex + 1]

\* resolvePoint folding a named point into the bounds at the origin.
ResolvePointFoldingNamed ==
    /\ pc = "convert"
    /\ elementIndex < Len(file.elements)
    /\ Len(points) < Len(pointsOf(currentElement))
    /\ \E resolved \in {resolvePoint(pointsOf(currentElement)[Len(points) + 1])} :
       \E box \in {add([min |-> min, max |-> max],
                       IF resolved.kind = "coordinate"
                       THEN resolved.scenePosition
                       ELSE [x |-> normalize(0, 0), y |-> normalize(0, 0),
                             z |-> normalize(0, 0)])} :
           /\ points' = Append(points, resolved)
           /\ min' = box.min
           /\ max' = box.max
    /\ UNCHANGED <<parserVars, file, elementIndex, sceneElements, graph,
                   sceneOffset, bend, arc, meshes, appVars>>

\* One call of resolvePoint by the converter of the current element.
ResolvePoint ==
    /\ pc = "convert"
    /\ elementIndex < Len(file.elements)
    /\ Len(points) < Len(pointsOf(currentElement))
    /\ \E resolved \in {resolvePoint(pointsOf(currentElement)[Len(points) + 1])} :
       \E box \in {IF resolved.kind = "coordinate"
                   THEN add([min |-> min, max |-> max],
                            resolved.scenePosition)
                   ELSE [min |-> min, max |-> max]} :
           /\ points' = Append(points, resolved)
           /\ min' = box.min
           /\ max' = box.max
    /\ UNCHANGED <<parserVars, file, elementIndex, sceneElements, graph,
                   sceneOffset, bend, arc, meshes, appVars>>

\* The converter of the current element returns its scene element.
ConvertElement ==
    /\ pc = "convert"
    /\ elementIndex < Len(file.elements)
    /\ Len(points) = Len(pointsOf(currentElement))
    /\ sceneElements' =
           Append(sceneElements,
                  convertElement(currentElement, elementId(elementIndex),
                                 points, file.definitions.nominalDiameters))
    /\ elementIndex' = elementIndex + 1
    /\ points' = <<>>
    /\ UNCHANGED <<parserVars, file, min, max, graph, sceneOffset, bend,
                   arc, meshes, appVars>>

\* buildSceneGraph returns.
ReturnGraph ==
    /\ pc = "convert"
    /\ elementIndex = Len(file.elements)
    /\ graph' = [elements |-> sceneElements,
                 bounds   |-> value([min |-> min, max |-> max])]
    /\ pc' = "built"
    /\ UNCHANGED <<id, source, records, issues, cursor, elements,
                   collectedIssues, nominalDiameters, result, candidate,
                   validation, revalidation, fault, file, elementIndex,
                   points, min, max, sceneElements, sceneOffset, bend, arc,
                   meshes, appVars>>

NextScene == ResolvePoint \/ ConvertElement \/ ReturnGraph

\* The files given to buildSceneGraph.  MaxElements bounds their length.
MaxElements == 2

int(n) == normalize(n, 0)

vector(x, y, z) == [x |-> x, y |-> y, z |-> z]

coordinate(x, y, z) == createCoordinatePoint(vector(x, y, z))

DN80  == <<"D", "N", "8", "0">>
DN100 == <<"D", "N", "1", "0", "0">>
DN150 == <<"D", "N", "1", "5", "0">>
DN200 == <<"D", "N", "2", "0", "0">>
DN999 == <<"D", "N", "9", "9", "9">>

NODE1 == createNamedPoint(<<"N", "O", "D", "E", "-", "1">>)

\* The table of tests/viewer/sceneGraph.spec.ts; DN999 is in no table.
SceneDiameters ==
    (DN150 :> [outsideDiameter |-> normalize(1683, -1)])
    @@ (DN200 :> [outsideDiameter |-> normalize(2191, -1)])
    @@ (DN100 :> [outsideDiameter |-> normalize(1143, -1)])
    @@ (DN80 :> [outsideDiameter |-> normalize(889, -1)])

StartPoints ==
    {coordinate(int(0), int(0), int(0)),
     coordinate(int(-2), int(20), normalize(5, -1)), NODE1}

EndPoints == {coordinate(int(-3), int(1), int(7)), NODE1}

common == [rawFields |-> <<>>, loadCases |-> <<>>]

\* The four elements of tests/viewer/sceneGraph.spec.ts.
straight ==
    [kind |-> "RO", start |-> coordinate(int(0), int(0), int(0)),
     end |-> coordinate(int(5), int(0), int(0)), nominalDiameter |-> DN150]
    @@ common

tee ==
    [kind |-> "TEE", mainStart |-> coordinate(int(5), int(0), int(0)),
     mainEnd |-> coordinate(int(5), int(4), int(0)),
     branchStart |-> coordinate(int(5), int(2), int(0)),
     branchEnd |-> coordinate(int(5), int(2), int(3)),
     mainNominalDiameter |-> DN200, branchNominalDiameter |-> DN100,
     teeType |-> <<"H">>]
    @@ common

valve ==
    [kind |-> "ARM", start |-> coordinate(int(2), int(0), int(0)),
     end |-> coordinate(int(2), int(1), int(0)),
     center |-> coordinate(int(2), normalize(5, -1), int(0)),
     inletDiameter |-> DN80, outletDiameter |-> DN80, weight |-> int(10)]
    @@ common

reducer ==
    [kind |-> "RED", start |-> coordinate(int(4), int(4), int(1)),
     end |-> NODE1, inletDiameter |-> DN200, outletDiameter |-> DN150]
    @@ common

SceneElementsIn ==
    {[kind |-> "RO", start |-> s, end |-> e, nominalDiameter |-> DN150]
         @@ common : s \in StartPoints, e \in EndPoints}
    \cup {[straight EXCEPT !.nominalDiameter = DN999]}
    \cup {[kind |-> "PROF", start |-> straight.start, end |-> straight.end,
           profileType |-> <<"H", "E", "A">>] @@ common @@ axis :
              axis \in {<<>>, [axisDirection |-> reducer.start],
                        [axisDirection |-> NODE1]}}
    \cup {[kind |-> "BOG", start |-> straight.start, end |-> straight.end,
           tangent |-> NODE1, nominalDiameter |-> DN100] @@ common,
          [kind |-> "BOG", start |-> NODE1, end |-> NODE1,
           tangent |-> tee.mainEnd, nominalDiameter |-> DN999] @@ common}
    \cup {tee, valve, reducer,
          [tee EXCEPT !.branchStart = NODE1, !.branchEnd = NODE1,
                      !.branchNominalDiameter = DN999]}

RECURSIVE SeqsUpTo(_, _)
SeqsUpTo(S, n) ==
    IF n = 0 THEN {<<>>}
    ELSE LET shorter == SeqsUpTo(S, n - 1)
         IN  shorter \cup {Append(q, x) : q \in shorter, x \in S}

SceneTestFile ==
    assembleFile(<<"s", "c", "e", "n", "e", "-", "t", "e", "s", "t">>,
                 SceneDiameters, <<straight, tee, valve, reducer>>, <<>>)

SceneFilesIn ==
    {assembleFile(<<"s", "c", "e", "n", "e">>, SceneDiameters, list, <<>>) :
         list \in SeqsUpTo(SceneElementsIn, MaxElements)}
    \cup {SceneTestFile}

\* buildSceneGraph is entered with a file that validateNtrFile accepted.
enterWith(files) ==
    /\ pc = "convert"
    /\ id = Unset
    /\ source = Unset
    /\ records = Unset
    /\ issues = Unset
    /\ cursor = 0
    /\ elements = Unset
    /\ collectedIssues = Unset
    /\ nominalDiameters = Unset
    /\ result = Unset
    /\ candidate = Unset
    /\ validation = Unset
    /\ revalidation = Unset
    /\ fault = Unset
    /\ \E data \in files :
       \E validated \in {validateNtrFile(data)} :
           /\ validated.ok
           /\ file = validated.value
    /\ elementIndex = 0
    /\ points = <<>>
    /\ min = <<>>
    /\ max = <<>>
    /\ sceneElements = <<>>
    /\ graph = Unset
    /\ sceneOffset = Unset
    /\ bend = Unset
    /\ arc = Unset
    /\ meshes = Unset
    /\ AppIdle

InitScene == enterWith(SceneFilesIn)

SpecScene == InitScene /\ [][NextScene]_vars

----------------------------------------------------------------------------
(* The bounds of the scene                                                 *)

\* The resolved points of a scene element, in the order of pointsOf.
resolvedOf(sceneElement) ==
    CASE sceneElement.kind \in {"RO", "RED"} ->
             <<sceneElement.start, sceneElement.end>>
      [] sceneElement.kind = "PROF" ->
             <<sceneElement.start, sceneElement.end>>
             \o sceneElement.axisDirection
      [] sceneElement.kind = "BOG" ->
             <<sceneElement.start, sceneElement.end, sceneElement.tangent>>
      [] sceneElement.kind = "TEE" ->
             <<sceneElement.mainStart, sceneElement.mainEnd,
               sceneElement.branchStart, sceneElement.branchEnd>>
      [] sceneElement.kind = "ARM" ->
             <<sceneElement.start, sceneElement.end, sceneElement.center>>

\* The scene positions of the coordinate points in a list of resolved points.
scenePositionsIn(list) ==
    {list[k].scenePosition :
        k \in {j \in 1..Len(list) : list[j].kind = "coordinate"}}

\* The scene positions of all coordinates resolved so far.
resolvedSoFar ==
    UNION {scenePositionsIn(resolvedOf(sceneElements[i])) :
              i \in 1..Len(sceneElements)}
    \cup scenePositionsIn(points)

Axes == {"x", "y", "z"}

lowest(numbers) == CHOOSE v \in numbers : \A w \in numbers : ~lessThan(w, v)
highest(numbers) == CHOOSE v \in numbers : \A w \in numbers : ~lessThan(v, w)

\* a <= b <= c componentwise.
within(a, b, c) ==
    \A axis \in Axes : ~lessThan(b[axis], a[axis]) /\ ~lessThan(c[axis], b[axis])

\* C11 (state part): after every processed point the running bounds are null
\* exactly when no coordinate has been resolved so far, and otherwise min and
\* max are the componentwise minimum and maximum of the scene positions of
\* the coordinates resolved so far; the returned graph carries these bounds
\* and they enclose every resolved coordinate.
C11_BoundsAreTheExtremes ==
    pc \in {"convert", "built"} =>
        \A seen \in {resolvedSoFar} :
            /\ (min = <<>>) <=> (seen = {})
            /\ (max = <<>>) <=> (seen = {})
            /\ seen # {} =>
                   \A axis \in Axes :
                       /\ min[1][axis] = lowest({p[axis] : p \in seen})
                       /\ max[1][axis] = highest({p[axis] : p \in seen})
            /\ pc = "built" =>
                   /\ (graph.bounds = <<>>) <=> (seen = {})
                   /\ seen # {} =>
                          /\ graph.bounds[1] = [min |-> min[1], max |-> max[1]]
                          /\ \A p \in seen :
                                 within(graph.bounds[1].min, p,
                                        graph.bounds[1].max)

\* C11 (step part): bounds that are set stay set and never shrink.
C11_BoundsNeverShrink ==
    (min # <<>> /\ max # <<>>) =>
        /\ min' # <<>> /\ max' # <<>>
        /\ within(min'[1], min[1], max[1])
        /\ within(min[1], max[1], max'[1])

\* C11: the running bounds of buildSceneGraph are null until the first
\* coordinate is resolved, are from then on exactly the componentwise
\* extremes of the scene positions resolved so far, never shrink, never
\* return to null, and enclose every resolved coordinate of the returned
\* graph.
C11_RunningBounds ==
    []C11_BoundsAreTheExtremes /\ [][C11_BoundsNeverShrink]_vars

\* A returned graph of at least three different coordinates whose bounds
\* are a proper box in every direction.
C11_Witness ==
    /\ pc = "built"
    /\ Cardinality(resolvedSoFar) >= 3
    /\ graph.bounds # <<>>
    /\ \A axis \in Axes :
           lessThan(graph.bounds[1].min[axis], graph.bounds[1].max[axis])
    /\ \E p \in resolvedSoFar :
           p # graph.bounds[1].min /\ p # graph.bounds[1].max

\* The part of the file whose points have been resolved: for each converted
\* element and for the current one, the source points next to the resolved.
pairsOf(sourcePoints, list) ==
    {<<sourcePoints[k], list[k]>> : k \in 1..Len(list)}

resolvedPairs ==
    UNION {pairsOf(pointsOf(file.elements[i]), resolvedOf(sceneElements[i])) :
              i \in 1..Len(sceneElements)}
    \cup (IF points = <<>> THEN {}
          ELSE pairsOf(pointsOf(currentElement), points))

negated(number) == [number EXCEPT !.m = -number.m]

\* The source positions of the coordinate points of the file.
sourcePositions ==
    UNION {{pointsOf(file.elements[i])[k].position :
               k \in {j \in 1..Len(pointsOf(file.elements[i])) :
                         pointsOf(file.elements[i])[j].kind = "coordinate"}} :
              i \in 1..Len(file.elements)}

\* C13: in the returned graph scene Y is the source Z and scene Z is the
\* negated source Y: bounds.min.z is minus the largest source y and
\* bounds.max.z is minus the smallest source y; the file of
\* tests/viewer/sceneGraph.spec.ts has bounds (0, 0, -4) to (5, 3, 0).
C13_SceneZIsNegatedY ==
    (pc = "built" /\ sourcePositions # {}) =>
        /\ graph.bounds # <<>>
        /\ graph.bounds[1].min.y = lowest({p.z : p \in sourcePositions})
        /\ graph.bounds[1].max.y = highest({p.z : p \in sourcePositions})
        /\ graph.bounds[1].min.z =
               negated(highest({p.y : p \in sourcePositions}))
        /\ graph.bounds[1].max.z =
               negated(lowest({p.y : p \in sourcePositions}))
        /\ file.id = SceneTestFile.id =>
               /\ graph.bounds[1].min = vector(int(0), int(0), int(-4))
               /\ graph.bounds[1].max = vector(int(5), int(3), int(0))

----------------------------------------------------------------------------
(* The scene elements                                                      *)

\* The diameter slots of a scene element, each with the property of the
\* source element that holds its code.
DiameterSlots(kind) ==
    CASE kind \in {"RO", "BOG"} -> {<<"outerDiameter", "nominalDiameter">>}
      [] kind = "TEE" ->
             {<<"mainOuterDiameter", "mainNominalDiameter">>,
              <<"branchOuterDiameter", "branchNominalDiameter">>}
      [] kind \in {"ARM", "RED"} ->
             {<<"inletOuterDiameter", "inletDiameter">>,
              <<"outletOuterDiameter", "outletDiameter">>}
      [] OTHER -> {}

\* C14: buildSceneGraph always comes to return a graph; the graph has one
\* scene element per element of the file, in the order of the file, of the
\* same kind and with id "element-<index>" counted from zero; and each
\* diameter slot is the outsideDiameter of the table's entry for the
\* element's code, or absent when the table has no such entry.  An RO with
\* code DN150 under a definition DN150 of 168.3 has outer diameter 168.3.
C14_OneSceneElementEach ==
    /\ pc = "convert" => ENABLED NextScene
    /\ pc \in {"convert", "built"} =>
           \A listed \in {IF pc = "built" THEN graph.elements
                          ELSE sceneElements} :
               /\ pc = "built" => Len(listed) = Len(file.elements)
               /\ Len(listed) <= Len(file.elements)
               /\ \A i \in 1..Len(listed) :
                      /\ listed[i].kind = file.elements[i].kind
                      /\ listed[i].source = file.elements[i]
                      /\ listed[i].id
                             = <<"e", "l", "e", "m", "e", "n", "t", "-">>
                               \o <<<<"0", "1", "2", "3", "4", "5", "6", "7",
                                      "8", "9">>[i]>>
                      /\ \A slot \in DiameterSlots(listed[i].kind) :
                             \A code \in {file.elements[i][slot[2]]} :
                                 listed[i][slot[1]] =
                                     IF code \in DOMAIN
                                            file.definitions.nominalDiameters
                                     THEN <<file.definitions
                                                .nominalDiameters[code]
                                                .outsideDiameter>>
                                     ELSE <<>>
                      /\ (/\ listed[i].kind = "RO"
                          /\ file.elements[i].nominalDiameter = DN150)
                         => listed[i].outerDiameter = <<normalize(1683, -1)>>

\* A returned graph of two elements, one with a diameter found in the table
\* and one with a diameter the table does not have.
C14_Witness ==
    /\ pc = "built"
    /\ Len(graph.elements) = 2
    /\ graph.elements[1].kind = "RO"
    /\ graph.elements[1].outerDiameter = <<normalize(1683, -1)>>
    /\ graph.elements[2].kind = "TEE"
    /\ graph.elements[2].mainOuterDiameter # <<>>
    /\ graph.elements[2].branchOuterDiameter = <<>>

\* C15 (state part): every named point is resolved to an unresolved point
\* that carries the point's id, and a file without coordinate points has
\* no bounds.
C15_NamedIsUnresolved ==
    pc \in {"convert", "built"} =>
        /\ \A pair \in resolvedPairs :
               pair[1].kind = "named" =>
                   pair[2] = [kind |-> "unresolved", reference |-> pair[1].id]
        /\ pc = "convert" => ENABLED NextScene
        /\ (pc = "built" /\ sourcePositions = {}) => graph.bounds = <<>>

\* C15 (step part): resolving a named point leaves the bounds as they were.
C15_NamedLeavesBounds ==
    (/\ Len(points') = Len(points) + 1
     /\ points'[Len(points')].kind = "unresolved")
    => (min' = min /\ max' = max)

\* C15: a named point becomes an unresolved scene point with the original
\* reference, adds nothing to the bounds and stops nothing; a file whose
\* points are all named has bounds null.
C15_NamedNodes ==
    []C15_NamedIsUnresolved /\ [][C15_NamedLeavesBounds]_vars

\* A returned graph of a file that has elements and whose points are all
\* named.
C15_Witness ==
    /\ pc = "built"
    /\ Len(file.elements) >= 1
    /\ sourcePositions = {}
    /\ graph.bounds = <<>>
    /\ \A i \in 1..Len(graph.elements) :
           \A k \in 1..Len(resolvedOf(graph.elements[i])) :
               resolvedOf(graph.elements[i])[k].kind = "unresolved"

----------------------------------------------------------------------------
(* viewer/RevitStylePointerInput.ts: the renderer's bend                   *)
(*                                                                         *)
(* The renderer computes with vectors of numbers.  Here a number is an     *)
(* exact fraction [n, d] in lowest terms with d >= 0; d = 0 stands for     *)
(* Infinity (n = 1), -Infinity (n = -1) and NaN (n = 0), so that a         *)
(* division by zero and its consequences are values, as in JavaScript.     *)
(* Rounding and overflow of doubles are not modelled; the bends rendered   *)
(* here have control segments and plane normals of rational length, so     *)
(* that every square root the renderer takes is exact.                     *)

abs(k) == IF k < 0 THEN -k ELSE k

sign(k) == IF k < 0 THEN -1 ELSE IF k > 0 THEN 1 ELSE 0

RECURSIVE gcd(_, _)
gcd(a, b) == IF b = 0 THEN a ELSE gcd(b, a % b)

fraction(n, d) ==
    IF d = 0 THEN [n |-> sign(n), d |-> 0]
    ELSE LET g == gcd(abs(n), abs(d))
         IN  [n |-> sign(d) * (n \div g), d |-> abs(d) \div g]

whole(k) == [n |-> k, d |-> 1]

notANumber(a) == a.n = 0 /\ a.d = 0

finite(a) == a.d # 0

negative(a) == [n |-> -a.n, d |-> a.d]

plus(a, b) ==
    IF a.d = 0 /\ b.d = 0 THEN (IF a.n = b.n THEN a ELSE fraction(0, 0))
    ELSE IF a.d = 0 THEN a
    ELSE IF b.d = 0 THEN b
    ELSE LET g == gcd(a.d, b.d)
         IN  fraction(a.n * (b.d \div g) + b.n * (a.d \div g),
                      (a.d \div g) * b.d)

minus(a, b) == plus(a, negative(b))

times(a, b) ==
    LET g == gcd(abs(a.n), b.d)
        h == gcd(abs(b.n), a.d)
    IN  IF a.d = 0 \/ b.d = 0 THEN fraction(a.n * b.n, 0)
        ELSE fraction((a.n \div g) * (b.n \div h),
                      (a.d \div h) * (b.d \div g))

dividedBy(a, b) ==
    IF b.d = 0 THEN fraction(0, IF a.d = 0 \/ b.n = 0 THEN 0 ELSE 1)
    ELSE IF b.n = 0 THEN fraction(a.n, 0)
    ELSE times(a, [n |-> sign(b.n) * b.d, d |-> abs(b.n)])

\* a < b; false when either is NaN.
less(a, b) ==
    /\ ~notANumber(a)
    /\ ~notANumber(b)
    /\ IF a.d = 0 \/ b.d = 0
       THEN a.n * b.d < b.n * a.d \/ (a.d = 0 /\ b.d = 0 /\ a.n < b.n)
       ELSE IF a.n \div a.d # b.n \div b.d THEN a.n \div a.d < b.n \div b.d
       ELSE LET g == gcd(a.d, b.d)
            IN  (a.n % a.d) * (b.d \div g) < (b.n % b.d) * (a.d \div g)

\* Math.abs
mathAbs(a) == [n |-> abs(a.n), d |-> a.d]

\* The integer whose square is k, found by bisection in lo..hi.
RECURSIVE rootBetween(_, _, _)
rootBetween(k, lo, hi) ==
    IF lo >= hi THEN lo
    ELSE LET mid == (lo + hi + 1) \div 2
         IN  IF mid <= k \div mid THEN rootBetween(k, mid, hi)
             ELSE rootBetween(k, lo, mid - 1)

\* The exact root of a square; the model takes no other root.
root(k) ==
    IF k = 0 THEN 0 ELSE CHOOSE r \in {rootBetween(k, 1, k)} : r * r = k

\* Math.sqrt
sqrt(a) ==
    IF notANumber(a) \/ a.n < 0 THEN fraction(0, 0)
    ELSE IF a.d = 0 THEN a
    ELSE [n |-> root(a.n), d |-> root(a.d)]

\* A JavaScript number of the document as a fraction.
toFraction(number) ==
    CASE number.nk = "nan" -> fraction(0, 0)
      [] number.nk = "inf" -> fraction(number.m, 0)
      [] OTHER -> IF number.e >= 0
                  THEN fraction(number.m * pow10(number.e), 1)
                  ELSE fraction(number.m, pow10(-number.e))

\* new BabylonVector3(position.x, position.y, position.z)
BabylonVector3(position) ==
    [x |-> toFraction(position.x), y |-> toFraction(position.y),
     z |-> toFraction(position.z)]

subtract(a, b) ==
    [x |-> minus(a.x, b.x), y |-> minus(a.y, b.y), z |-> minus(a.z, b.z)]

vectorAdd(a, b) ==
    [x |-> plus(a.x, b.x), y |-> plus(a.y, b.y), z |-> plus(a.z, b.z)]

scale(a, k) == [x |-> times(a.x, k), y |-> times(a.y, k), z |-> times(a.z, k)]

Dot(a, b) == plus(plus(times(a.x, b.x), times(a.y, b.y)), times(a.z, b.z))

Cross(a, b) ==
    [x |-> minus(times(a.y, b.z), times(a.z, b.y)),
     y |-> minus(times(a.z, b.x), times(a.x, b.z)),
     z |-> minus(times(a.x, b.y), times(a.y, b.x))]

lengthSquared(a) == Dot(a, a)

\* Vector3.normalize: a vector of length 0 or 1 is left as it is.
normalizeVector(a) ==
    LET len == sqrt(lengthSquared(a))
    IN  IF len = whole(0) \/ len = whole(1) THEN a
        ELSE scale(a, dividedBy(whole(1), len))

\* 1e-6
Tolerance == fraction(1, 1000000)

\* computeSceneOffset: the centre of the bounds, the origin without bounds.
computeSceneOffset(bounds) ==
    IF bounds = <<>> THEN [x |-> whole(0), y |-> whole(0), z |-> whole(0)]
    ELSE scale(vectorAdd(BabylonVector3(bounds[1].min),
                         BabylonVector3(bounds[1].max)),
               fraction(1, 2))

\* createTubeSegment: the tube from start to end named by suffix, null
\* (length 0) unless both points are coordinates.  Of a tube the model keeps
\* the name and the two ends of the path.
createTubeSegment(suffix, start, end, offset) ==
    IF start.kind # "coordinate" \/ end.kind # "coordinate" THEN <<>>
    ELSE <<[name |-> suffix,
            path |-> [first |-> subtract(BabylonVector3(start.scenePosition),
                                         offset),
                      last  |-> subtract(BabylonVector3(end.scenePosition),
                                         offset)]]>>

\* createSegmentedBendMeshes that stops after the first segment.
createFirstSegmentOnly(element, offset) ==
    createTubeSegment("bend-segment-1", element.start, element.tangent, offset)

\* createSegmentedBendMeshes
createSegmentedBendMeshes(element, offset) ==
    createTubeSegment("bend-segment-1", element.start, element.tangent, offset)
    \o createTubeSegment("bend-segment-2", element.tangent, element.end,
                         offset)

\* The elbow radius without the factor 2.
elbowRadiusUnhalved(ex, ey) ==
    dividedBy(plus(times(ex, ex), times(ey, ey)), ey)

\* createBendMesh: const elbowRadius = (ex * ex + ey * ey) / (2 * ey)
elbowRadiusOf(ex, ey) ==
    dividedBy(plus(times(ex, ex), times(ey, ey)), times(whole(2), ey))

\* The centre placed on the other side of the start.
centerOpposite(startVec, v, elbowRadius) ==
    subtract(startVec, scale(v, elbowRadius))

\* createBendMesh: const center = startVec.add(v.scale(elbowRadius))
centerOf(startVec, v, elbowRadius) ==
    vectorAdd(startVec, scale(v, elbowRadius))

\* createBendMesh from the radius on: the locals at the return.  Of the path
\* the model keeps the two ends, which the code overwrites with startVec and
\* endVec; the points between them are not modelled.
arcOfRadius(startVec, endVec, u, v, ex, ey, elbowRadius) ==
    IF ~finite(elbowRadius) \/ ~less(Tolerance, elbowRadius) THEN <<>>
    ELSE <<[u           |-> u,
            v           |-> v,
            ex          |-> ex,
            ey          |-> ey,
            elbowRadius |-> elbowRadius,
            center      |-> centerOf(startVec, v, elbowRadius),
            path        |-> [first |-> startVec, last |-> endVec]]>>

\* createBendMesh from ex and ey on.
arcInFrame(startVec, endVec, u, v, ex, ey) ==
    IF less(mathAbs(ey), Tolerance) THEN <<>>
    ELSE IF less(ey, whole(0))
    THEN arcOfRadius(startVec, endVec, u, scale(v, whole(-1)), ex,
                     negative(ey), elbowRadiusOf(ex, negative(ey)))
    ELSE arcOfRadius(startVec, endVec, u, v, ex, ey, elbowRadiusOf(ex, ey))

\* createBendMesh from v = Cross(u, planeNormal) on.
arcAcross(startVec, endVec, u, v) ==
    IF less(lengthSquared(v), Tolerance) THEN <<>>
    ELSE arcInFrame(startVec, endVec, u, normalizeVector(v),
                    Dot(subtract(endVec, startVec), u),
                    Dot(subtract(endVec, startVec), normalizeVector(v)))

\* createBendMesh from startToTangent and endToTangent on.
arcBetween(startVec, endVec, startToTangent, endToTangent) ==
    IF \/ less(lengthSquared(startToTangent), Tolerance)
       \/ less(lengthSquared(endToTangent), Tolerance)
    THEN <<>>
    ELSE IF less(lengthSquared(Cross(startToTangent, endToTangent)),
                 Tolerance)
    THEN <<>>
    ELSE arcAcross(startVec, endVec, normalizeVector(startToTangent),
                   Cross(normalizeVector(startToTangent),
                         normalizeVector(Cross(startToTangent,
                                               endToTangent))))

\* createBendMesh on the three vectors relative to the scene offset.
arcThrough(startVec, endVec, tangentVec) ==
    arcBetween(startVec, endVec, subtract(tangentVec, startVec),
               subtract(tangentVec, endVec))

\* createBendMesh: the locals at its return, null (length 0) when it
\* returns null.
createBendMesh(element, offset) ==
    IF \/ element.start.kind # "coordinate"
       \/ element.end.kind # "coordinate"
       \/ element.tangent.kind # "coordinate"
    THEN <<>>
    ELSE arcThrough(subtract(BabylonVector3(element.start.scenePosition),
                             offset),
                    subtract(BabylonVector3(element.end.scenePosition),
                             offset),
                    subtract(BabylonVector3(element.tangent.scenePosition),
                             offset))

\* The mesh createBendMesh returns for an arc.
elbowOf(fitted) == [name |-> "elbow", path |-> fitted.path]

----------------------------------------------------------------------------
(* The renderer's load as a state machine, for files of bends              *)

\* load(graph) up to its loop over the elements.
Load ==
    /\ pc = "built"
    /\ pc' = "load"
    /\ sceneOffset' = computeSceneOffset(graph.bounds)
    /\ elementIndex' = 0
    /\ UNCHANGED <<id, source, records, issues, cursor, elements,
                   collectedIssues, nominalDiameters, result, candidate,
                   validation, revalidation, fault, file, points, min, max,
                   sceneElements, graph, bend, arc, meshes, appVars>>

\* createMeshesForElement(element), case "BOG", for the next element of the
\* graph.
CreateMeshesForElement ==
    /\ pc = "load"
    /\ elementIndex < Len(graph.elements)
    /\ graph.elements[elementIndex + 1].kind = "BOG"
    /\ \E element \in {graph.elements[elementIndex + 1]} :
       \E fitted \in {createBendMesh(element, sceneOffset)} :
           /\ bend' = element
           /\ arc' = fitted
           /\ meshes' = IF fitted # <<>> THEN <<elbowOf(fitted[1])>>
                        ELSE createSegmentedBendMeshes(element, sceneOffset)
    /\ elementIndex' = elementIndex + 1
    /\ UNCHANGED <<parserVars, file, points, min, max, sceneElements, graph,
                   sceneOffset, appVars>>

NextBend ==
    \/ ResolvePoint
    \/ ConvertElement
    \/ ReturnGraph
    \/ Load
    \/ CreateMeshesForElement

\* Start, tangent and end of the bends rendered, in source coordinates.
\* Each triple has a control segment start -> tangent of rational length in
\* a plane whose normal has rational length.
half == normalize(5, -1)

BendTriples ==
    {\* a quarter circle: both control segments 10 long
     <<coordinate(int(0), int(0), int(0)), coordinate(int(10), int(0), int(0)),
       coordinate(int(10), int(10), int(0))>>,
     \* control segments 10 and 5 long
     <<coordinate(int(0), int(0), int(0)), coordinate(int(10), int(0), int(0)),
       coordinate(int(10), int(5), int(0))>>,
     \* the end on the other side
     <<coordinate(int(0), int(0), int(0)), coordinate(int(10), int(0), int(0)),
       coordinate(int(10), int(-10), int(0))>>,
     \* an oblique start, both control segments 5 long
     <<coordinate(int(0), int(0), int(0)), coordinate(int(3), int(4), int(0)),
       coordinate(int(8), int(4), int(0))>>,
     \* an oblique start, control segments 5 and 6 long
     <<coordinate(int(0), int(0), int(0)), coordinate(int(3), int(4), int(0)),
       coordinate(int(3), int(10), int(0))>>,
     \* out of the ground plane, control segments 5 and 3 long
     <<coordinate(int(1), int(2), int(3)), coordinate(int(1), int(2), int(8)),
       coordinate(int(4), int(2), int(8))>>,
     \* out of the ground plane, both control segments 10 long
     <<coordinate(int(0), int(0), int(0)), coordinate(int(0), int(0), int(10)),
       coordinate(int(0), int(10), int(10))>>,
     \* an obtuse and an acute bend
     <<coordinate(int(0), int(0), int(0)), coordinate(int(10), int(0), int(0)),
       coordinate(int(20), int(10), int(0))>>,
     <<coordinate(int(0), int(0), int(0)), coordinate(int(10), int(0), int(0)),
       coordinate(int(0), int(10), int(0))>>,
     \* fractions
     <<coordinate(half, int(0), int(0)), coordinate(normalize(25, -1), int(0), int(0)),
       coordinate(normalize(25, -1), int(2), int(0))>>,
     \* colinear, forwards and back to the start
     <<coordinate(int(0), int(0), int(0)), coordinate(int(5), int(0), int(0)),
       coordinate(int(10), int(0), int(0))>>,
     <<coordinate(int(0), int(0), int(0)), coordinate(int(10), int(0), int(0)),
       coordinate(int(0), int(0), int(0))>>,
     \* the tangent on the start, and on the end
     <<coordinate(int(0), int(0), int(0)), coordinate(int(0), int(0), int(0)),
       coordinate(int(10), int(10), int(0))>>,
     <<coordinate(int(0), int(0), int(0)), coordinate(int(10), int(10), int(0)),
       coordinate(int(10), int(10), int(0))>>,
     \* the tangent 0.0005 from the start, and 0.0005 from the end
     <<coordinate(int(0), int(0), int(0)),
       coordinate(normalize(5, -4), int(0), int(0)),
       coordinate(normalize(5, -4), int(10), int(0))>>,
     <<coordinate(int(0), int(0), int(0)),
       coordinate(int(10), int(0), int(0)),
       coordinate(int(10), normalize(5, -4), int(0))>>,
     \* the end 0.0005 off the line through start and tangent
     <<coordinate(int(0), int(0), int(0)), coordinate(int(1), int(0), int(0)),
       coordinate(int(2), normalize(5, -4), int(0))>>}

\* The quarter circle with some of its points named.
NamedTriples ==
    {<<s, t, e>> :
        s \in {coordinate(int(0), int(0), int(0)), NODE1},
        t \in {coordinate(int(10), int(0), int(0)), NODE1},
        e \in {coordinate(int(10), int(10), int(0)), NODE1}}

BendsIn ==
    {[kind |-> "BOG", start |-> triple[1], tangent |-> triple[2],
      end |-> triple[3], nominalDiameter |-> DN100] @@ common :
         triple \in BendTriples \cup NamedTriples}

BendFilesIn ==
    {assembleFile(<<"b", "e", "n", "d">>, SceneDiameters, <<one>>, <<>>) :
         one \in BendsIn}

InitBend == enterWith(BendFilesIn)

SpecBend == InitBend /\ [][NextBend]_vars

----------------------------------------------------------------------------
(* The fitted arc                                                          *)

\* createMeshesForElement has run on the bend.
rendered == pc = "load" /\ elementIndex > 0

allResolved ==
    /\ bend.start.kind = "coordinate"
    /\ bend.end.kind = "coordinate"
    /\ bend.tangent.kind = "coordinate"

\* Start, end and tangent of the bend as the renderer places them.
startVec == subtract(BabylonVector3(bend.start.scenePosition), sceneOffset)
endVec == subtract(BabylonVector3(bend.end.scenePosition), sceneOffset)
tangentVec == subtract(BabylonVector3(bend.tangent.scenePosition), sceneOffset)

origin == [x |-> whole(0), y |-> whole(0), z |-> whole(0)]

finiteVector(a) == finite(a.x) /\ finite(a.y) /\ finite(a.z)

\* Start, tangent and end lie on one line, or a control segment is shorter
\* than a thousandth.
degenerate ==
    \/ Cross(subtract(tangentVec, startVec), subtract(endVec, startVec))
           = origin
    \/ less(lengthSquared(subtract(tangentVec, startVec)), Tolerance)
    \/ less(lengthSquared(subtract(tangentVec, endVec)), Tolerance)

\* The straight segment from one placed point to another.
segment(name, from, to) == [name |-> name, path |-> [first |-> from, last |-> to]]

\* The fit gives an arc of finite positive radius or fails, and a bend that
\* is not fitted is drawn as the two segments start -> tangent and
\* tangent -> end.
C16_TwoSegmentsWithoutFit ==
    rendered =>
        /\ arc # <<>> =>
               /\ finite(arc[1].elbowRadius)
               /\ less(whole(0), arc[1].elbowRadius)
        /\ (allResolved /\ degenerate) => arc = <<>>
        /\ (arc = <<>> \/ ~allResolved) =>
               /\ Len(meshes) = 2
               /\ meshes[1].name = "bend-segment-1"
               /\ meshes[2].name = "bend-segment-2"
               /\ allResolved =>
                      meshes = <<segment("bend-segment-1", startVec,
                                         tangentVec),
                                 segment("bend-segment-2", tangentVec,
                                         endVec)>>

\* C16: the fit gives an arc of finite radius > 0, drawn as one elbow, or
\* fails; it fails when start, tangent and end are colinear and when a
\* control segment is (nearly) of length zero; a bend of three coordinates
\* whose fit fails is drawn as exactly the two segments start -> tangent and
\* tangent -> end; a bend with an unresolved point is never fitted and is
\* drawn as those of the two segments whose ends are both coordinates.
C16_FitOrFallback ==
    rendered =>
        /\ arc # <<>> =>
               /\ allResolved
               /\ finite(arc[1].elbowRadius)
               /\ less(whole(0), arc[1].elbowRadius)
               /\ finiteVector(arc[1].center)
               /\ meshes = <<segment("elbow", startVec, endVec)>>
        /\ (allResolved /\ degenerate) => arc = <<>>
        /\ (allResolved /\ arc = <<>>) =>
               meshes = <<segment("bend-segment-1", startVec, tangentVec),
                          segment("bend-segment-2", tangentVec, endVec)>>
        /\ ~allResolved =>
               /\ arc = <<>>
               /\ meshes =
                      (IF bend.start.kind = "coordinate"
                          /\ bend.tangent.kind = "coordinate"
                       THEN <<segment("bend-segment-1", startVec, tangentVec)>>
                       ELSE <<>>)
                      \o (IF bend.tangent.kind = "coordinate"
                             /\ bend.end.kind = "coordinate"
                          THEN <<segment("bend-segment-2", tangentVec,
                                         endVec)>>
                          ELSE <<>>)

\* A bend of three different colinear coordinates drawn as two segments.
C16_Witness ==
    /\ rendered
    /\ allResolved
    /\ startVec # tangentVec /\ tangentVec # endVec /\ startVec # endVec
    /\ Cross(subtract(tangentVec, startVec), subtract(endVec, startVec))
           = origin
    /\ arc = <<>>
    /\ Len(meshes) = 2

distanceSquared(a, b) == lengthSquared(subtract(a, b))

\* C17: when the fit succeeds, r = (ex^2 + ey^2) / (2 ey) with ex and ey the
\* components of end - start along u and v, the centre is start + v r, the
\* centre is at distance r from the start and from the end, and the path of
\* the elbow begins at the start and ends at the end.
C17_CentreEquidistant ==
    (rendered /\ arc # <<>>) =>
        \A fitted \in {arc[1]} :
            /\ fitted.ex = Dot(subtract(endVec, startVec), fitted.u)
            /\ fitted.ey = Dot(subtract(endVec, startVec), fitted.v)
            /\ times(times(whole(2), fitted.ey), fitted.elbowRadius)
                   = plus(times(fitted.ex, fitted.ex),
                          times(fitted.ey, fitted.ey))
            /\ fitted.center
                   = vectorAdd(startVec, scale(fitted.v, fitted.elbowRadius))
            /\ distanceSquared(fitted.center, startVec)
                   = times(fitted.elbowRadius, fitted.elbowRadius)
            /\ distanceSquared(fitted.center, endVec)
                   = times(fitted.elbowRadius, fitted.elbowRadius)
            /\ Len(meshes) = 1
            /\ meshes[1].name = "elbow"
            /\ meshes[1].path.first = startVec
            /\ meshes[1].path.last = endVec

\* A fitted bend whose control segments differ in length and whose radius
\* is no whole number.
C17_Witness ==
    /\ rendered
    /\ arc # <<>>
    /\ arc[1].elbowRadius.d > 1
    /\ distanceSquared(tangentVec, startVec)
           # distanceSquared(tangentVec, endVec)
    /\ sceneOffset # origin

\* The radius to a point of the circle is perpendicular to a direction.
perpendicular(centre, point, direction) ==
    Dot(subtract(centre, point), direction) = whole(0)

\* For every fitted bend the circle is tangent to start -> tangent at the
\* start and to tangent -> end at the end.
C18_TangentAtBothEnds ==
    (rendered /\ arc # <<>>) =>
        /\ perpendicular(arc[1].center, startVec,
                         subtract(tangentVec, startVec))
        /\ perpendicular(arc[1].center, endVec, subtract(endVec, tangentVec))

\* C18: for every fitted bend the circle passes through start and end and is
\* tangent to start -> tangent at the start; it is tangent to tangent -> end
\* at the end exactly when the two control segments are equally long.
C18_TangentAtStart ==
    (rendered /\ arc # <<>>) =>
        /\ perpendicular(arc[1].center, startVec,
                         subtract(tangentVec, startVec))
        /\ distanceSquared(arc[1].center, startVec)
               = distanceSquared(arc[1].center, endVec)
        /\ perpendicular(arc[1].center, endVec, subtract(endVec, tangentVec))
           <=> distanceSquared(tangentVec, startVec)
                   = distanceSquared(tangentVec, endVec)

\* A fitted bend with control segments of different length, tangent at the
\* start and not at the end.
C18_Witness ==
    /\ rendered
    /\ arc # <<>>
    /\ distanceSquared(tangentVec, startVec)
           # distanceSquared(tangentVec, endVec)
    /\ perpendicular(arc[1].center, startVec, subtract(tangentVec, startVec))
    /\ ~perpendicular(arc[1].center, endVec, subtract(endVec, tangentVec))

----------------------------------------------------------------------------
(* lexNtr on lines of written tokens                                       *)
(*                                                                         *)
(* A line is written from a record code and tokens.  A token is written    *)
(* key=value, with the value bare or between two quote characters, or      *)
(* without "=".  The claims about the lexer compare what lexNtr returns    *)
(* with the tokens the line was written from.                              *)

pair(key, quoteChar, text) ==
    [eq |-> TRUE, key |-> key, quote |-> quoteChar, text |-> text]

bare(text) == [eq |-> FALSE, key |-> <<>>, quote |-> <<>>, text |-> text]

\* The text of a token.
written(token) ==
    IF token.eq
    THEN token.key \o <<"=">> \o token.quote \o token.text \o token.quote
    ELSE token.text

writtenLine(line) ==
    join(<<line.code>> \o [k \in 1..Len(line.tokens) |-> written(line.tokens[k])],
         <<" ">>)

SingleQuote == <<"'">>
DoubleQuote == <<"\"">>

\* tests/ntr/lexer.spec.ts: "RO P1 DN=DN150", and lines like it.
MalformedLines ==
    {[code |-> CODE_RO, tokens |-> <<bare(KEY_P1), pair(KEY_DN, <<>>, DN150)>>],
     [code |-> <<"r", "o">>,
      tokens |-> <<pair(<<"p", "1">>, SingleQuote, Origin), bare(KEY_P2),
                   pair(KEY_DN, <<>>, CodeA)>>],
     [code |-> CODE_RO, tokens |-> <<bare(KEY_P1), bare(KEY_P2)>>],
     [code |-> CODE_RO,
      tokens |-> <<pair(<<>>, <<>>, <<"5">>), pair(KEY_DN, <<>>, CodeA)>>],
     [code |-> CODE_DN, tokens |-> <<pair(<<>>, SingleQuote, CodeA)>>],
     [code |-> CODE_TEE, tokens |-> <<>>],
     [code |-> COMMENT_RECORD, tokens |-> <<bare(KEY_P1), bare(KEY_P2)>>]}

\* tests/shared/iter.spec.ts: TEXT='Hello world' KEY="A B", and values with
\* other characters between the quotes.
QuotedLines ==
    {[code |-> CODE_RO,
      tokens |-> <<pair(KEY_TEXT, q, text), pair(KEY_DN, <<>>, CodeA)>>] :
         q \in {SingleQuote, DoubleQuote},
         text \in {<<"A", " ", "B">>, <<"a", "=", "b">>, <<"a", "!", "b">>,
                   <<>>, <<" ", "A", " ">>}}
    \cup {[code |-> CODE_RO,
           tokens |-> <<pair(KEY_TEXT, SingleQuote, <<"a", "\"", "b">>)>>],
          [code |-> CODE_RO,
           tokens |-> <<pair(KEY_TEXT, DoubleQuote, <<"a", "'", "b">>)>>]}

\* Values that are not wrapped in matching quotes.
UnquotedLines ==
    {[code |-> CODE_RO, tokens |-> <<pair(KEY_P1, <<>>, Node1)>>],
     [code |-> CODE_RO, tokens |-> <<pair(KEY_P1, <<>>, SingleQuote)>>],
     [code |-> CODE_RO,
      tokens |-> <<pair(KEY_P1, <<>>, <<"'", "N", "1", "\"">>)>>]}

LexLines == MalformedLines \cup QuotedLines \cup UnquotedLines

LexSources ==
    {join([k \in 1..Len(lines) |-> writtenLine(lines[k])], <<"\n">>) :
        lines \in UNION {[1..n -> LexLines] : n \in 0..MaxLines}}

InitLex ==
    /\ pc = "start"
    /\ id = <<"f", ".", "n", "t", "r">>
    /\ source \in LexSources
    /\ records = Unset
    /\ issues = Unset
    /\ cursor = 0
    /\ elements = Unset
    /\ collectedIssues = Unset
    /\ nominalDiameters = Unset
    /\ result = Unset
    /\ candidate = Unset
    /\ validation = Unset
    /\ revalidation = Unset
    /\ fault = Unset
    /\ ViewerIdle
    /\ AppIdle

SpecLex == InitLex /\ [][Lex]_vars

\* The lines of the source, and the written lines a line of the source can
\* have been written from.
sourceLines == split(source, "\n")

writtenAs(text) == {line \in LexLines : writtenLine(line) = text}

hasComment(line) ==
    \E k \in 1..Len(line.tokens) : "!" \in Range(line.tokens[k].text)

\* The records and the issues of lexNtr that carry line number i.
recordsOf(i) == SelectSeq(records, LAMBDA r : r.lineNumber = i)
issuesOf(i) == SelectSeq(issues, LAMBDA s : s.lineNumber = i)

\* A field as the token it was made from.
taken(field) ==
    [key |-> field.key, rawValue |-> field.rawValue,
     lineNumber |-> field.lineNumber]

\* The token as the field it is to become: the key in upper case and the
\* text after "=" as it stands.
tokenOf(token, i) ==
    [key        |-> toUpperCase(token.key),
     rawValue   |-> trim(token.quote \o token.text \o token.quote),
     lineNumber |-> i]

\* What the claims keep of a field.
shown(field) ==
    [key |-> field.key, value |-> field.value, quoted |-> field.quoted,
     lineNumber |-> field.lineNumber]

\* The field a written key=value token is to become.
fieldOf(token, i) ==
    [key        |-> toUpperCase(token.key),
     value      |-> IF token.quote = <<>> THEN trim(token.text)
                    ELSE token.text,
     quoted     |-> token.quote # <<>>,
     lineNumber |-> i]

\* The issue a token leaves: none, "Expected key=value pair" for a token
\* without "=", "Missing field key" for one that starts with "=".
issueOf(token, code, i) ==
    IF ~token.eq
    THEN <<createIssue(code, i, "Expected key=value pair, received",
                       written(token), "error")>>
    ELSE IF token.key = <<>>
    THEN <<createIssue(code, i, "Missing field key", <<>>, "error")>>
    ELSE <<>>

\* The line i of the source, written from `line`, is lexed as the claim
\* says when the tokens in `fieldTokens` are those that become fields.
lexedAs(line, i, fieldTokens(_)) ==
    IF toUpperCase(line.code) = COMMENT_RECORD
    THEN recordsOf(i) = <<>> /\ issuesOf(i) = <<>>
    ELSE /\ Len(recordsOf(i)) = 1
         /\ recordsOf(i)[1].code = toUpperCase(line.code)
         /\ LET kept == SelectSeq(line.tokens, fieldTokens)
            IN  /\ Len(recordsOf(i)[1].fields) = Len(kept)
                /\ \A k \in 1..Len(kept) :
                       taken(recordsOf(i)[1].fields[k]) = tokenOf(kept[k], i)
         /\ LET bad == SelectSeq(line.tokens, LAMBDA t : ~t.eq)
            IN  SelectSeq(issuesOf(i),
                          LAMBDA s : s.message.tpl
                                         = "Expected key=value pair, received")
                = [k \in 1..Len(bad) |->
                      createIssue(toUpperCase(line.code), i,
                                  "Expected key=value pair, received",
                                  written(bad[k]), "error")]

\* Every token without "=" leaves one error issue and no field, and every
\* other token of the line becomes a field.
C19_EveryOtherTokenIsAField ==
    pc = "loop" =>
        \A i \in 1..Len(sourceLines) :
            \A line \in writtenAs(sourceLines[i]) :
                ~hasComment(line) => lexedAs(line, i, LAMBDA t : t.eq)

\* The issues of all tokens of a written line, in the order of the tokens.
RECURSIVE issuesFrom(_, _, _)
issuesFrom(line, i, k) ==
    IF k > Len(line.tokens) THEN <<>>
    ELSE issueOf(line.tokens[k], toUpperCase(line.code), i)
         \o issuesFrom(line, i, k + 1)

\* C19: on every record line each token without "=" leaves exactly one
\* error issue "Expected key=value pair" with the record's code and line and
\* no field; each token that starts with "=" leaves one error issue "Missing
\* field key" and no field; every other token of the line becomes a field,
\* in the order written; the record is emitted, and the issues are in the
\* order of the lines.
C19_MalformedTokenDropped ==
    pc = "loop" =>
        /\ \A i \in 1..Len(sourceLines) :
               \A line \in writtenAs(sourceLines[i]) :
                   ~hasComment(line) =>
                       /\ lexedAs(line, i, LAMBDA t : t.eq /\ t.key # <<>>)
                       /\ toUpperCase(line.code) # COMMENT_RECORD =>
                              issuesOf(i) = issuesFrom(line, i, 1)
        /\ \A a, b \in 1..Len(issues) :
               a <= b => issues[a].lineNumber <= issues[b].lineNumber
        /\ \A a, b \in 1..Len(records) :
               a < b => records[a].lineNumber < records[b].lineNumber

\* The test's line between two others: a token without "=" dropped with its
\* issue, and the token after it kept.
C19_Witness ==
    /\ pc = "loop"
    /\ Len(sourceLines) = 2
    /\ sourceLines[2] = writtenLine([code |-> CODE_RO,
                                     tokens |-> <<bare(KEY_P1),
                                                  pair(KEY_DN, <<>>, DN150)>>])
    /\ Len(recordsOf(2)) = 1
    /\ Len(recordsOf(2)[1].fields) = 1
    /\ recordsOf(2)[1].fields[1].key = KEY_DN
    /\ Len(issuesOf(2)) = 1
    /\ Len(issuesOf(1)) = 2

\* C20: a field written KEY='v' or KEY="v", v without the enclosing quote
\* character, is one field with key KEY in upper case, value v and quoted
\* true, whatever else v contains; a value not wrapped in matching quotes is
\* a field with quoted false and the trimmed text.
C20_QuotedValueKeptWhole ==
    pc = "loop" =>
        \A i \in 1..Len(sourceLines) :
            \A line \in writtenAs(sourceLines[i]) :
                (/\ toUpperCase(line.code) # COMMENT_RECORD
                 /\ \A k \in 1..Len(line.tokens) :
                        line.tokens[k].eq /\ line.tokens[k].key # <<>>)
                => /\ Len(recordsOf(i)) = 1
                   /\ Len(recordsOf(i)[1].fields) = Len(line.tokens)
                   /\ \A k \in 1..Len(line.tokens) :
                          shown(recordsOf(i)[1].fields[k])
                              = fieldOf(line.tokens[k], i)

----------------------------------------------------------------------------
(* lexNtr on blank lines, comment lines and record lines                   *)
(*                                                                         *)
(* A line is written from leading white space, the tokens (none for a      *)
(* blank line), an inline comment and the end of a line that a CR LF       *)
(* closes.                                                                 *)

textLine(lead, tokens, note, end) ==
    [lead |-> lead, tokens |-> tokens, note |-> note, end |-> end]

lineText(line) ==
    line.lead \o join(line.tokens, <<" ">>) \o line.note \o line.end

Note == <<" ", "!", " ", "C", " ", "R", "O">>

\* Lines without a token: empty, of white space, or of a comment only.
BlankLines ==
    {textLine(<<>>, <<>>, <<>>, <<>>),
     textLine(<<" ", "\t">>, <<>>, <<>>, <<>>),
     textLine(<<>>, <<>>, <<>>, <<"\r">>),
     textLine(<<>>, <<>>, Note, <<>>),
     textLine(<<>>, <<>>, <<"!">> \o keyValue(KEY_P1, Node1), <<>>)}

\* Lines whose first token is the comment code.
CommentLines ==
    {textLine(<<>>, <<COMMENT_RECORD>>, <<>>, <<>>),
     textLine(<<" ">>, <<<<"c">>, <<"x">>>>, <<>>, <<>>),
     textLine(<<>>, <<COMMENT_RECORD, CODE_RO, keyValue(KEY_P1, Node1)>>,
              <<>>, <<"\r">>),
     textLine(<<>>, <<COMMENT_RECORD, KEY_P1>>, Note, <<>>),
     textLine(<<>>, <<COMMENT_RECORD>>, <<"!">>, <<>>)}

\* Lines whose first token is another code.
CodeLines ==
    {textLine(<<>>, <<CODE_RO, keyValue(KEY_P1, Node1)>>, <<>>, <<>>),
     textLine(<<" ", " ">>, <<CODE_RO>>, <<>>, <<>>),
     textLine(<<>>, <<CODE_RO, KEY_P1, keyValue(KEY_DN, CodeA)>>, Note, <<>>),
     textLine(<<>>, <<CODE_DN, keyValue(KEY_NAME, CodeA),
                      keyValue(KEY_DA, <<"3">>)>>, <<>>, <<"\r">>),
     textLine(<<>>, <<<<"C", "C">>, keyValue(<<"x">>, <<"1">>)>>, <<>>, <<>>),
     textLine(<<>>, <<keyValue(COMMENT_RECORD, <<"1">>)>>, <<>>, <<>>),
     textLine(<<>>, <<quote(COMMENT_RECORD), KEY_P1, KEY_P2>>, <<>>, <<>>),
     textLine(<<"\t">>, <<<<"x">>, keyValue(<<>>, <<"1">>),
                          keyValue(KEY_P1, <<>>)>>, <<"!">>, <<>>)}

TextLines == BlankLines \cup CommentLines \cup CodeLines

LineSources ==
    {join([k \in 1..Len(lines) |-> lineText(lines[k])], <<"\n">>) :
        lines \in UNION {[1..n -> TextLines] : n \in 0..MaxLines}}

InitLines ==
    /\ pc = "start"
    /\ id = <<"f", ".", "n", "t", "r">>
    /\ source \in LineSources
    /\ records = Unset
    /\ issues = Unset
    /\ cursor = 0
    /\ elements = Unset
    /\ collectedIssues = Unset
    /\ nominalDiameters = Unset
    /\ result = Unset
    /\ candidate = Unset
    /\ validation = Unset
    /\ revalidation = Unset
    /\ fault = Unset
    /\ ViewerIdle
    /\ AppIdle

SpecLines == InitLines /\ [][Lex]_vars

\* The written lines the text of a line of the source can be.
textLineOf(text) == {line \in TextLines : lineText(line) = text}

\* The line is one lexNtr is to make a record of.
emits(line) ==
    /\ line.tokens # <<>>
    /\ toUpperCase(line.tokens[1]) # COMMENT_RECORD

\* C21: lexNtr emits exactly one record for each line of the source that
\* has a token and whose first token is not the comment code, and neither
\* a record nor an issue for a blank line or a comment line; the record has
\* the line's first token as its code; every record, every field of it and
\* every issue carries the number of its line in the source, counted from 1
\* with the dropped lines; the records are in ascending order of lines.
C21_OneRecordPerCodeLine ==
    pc = "loop" =>
        /\ \A i \in 1..Len(sourceLines) :
               \A line \in textLineOf(sourceLines[i]) :
                   IF emits(line)
                   THEN /\ Len(recordsOf(i)) = 1
                        /\ recordsOf(i)[1].code = toUpperCase(line.tokens[1])
                        /\ Len(issuesOf(i)) <= Len(line.tokens) - 1
                   ELSE recordsOf(i) = <<>> /\ issuesOf(i) = <<>>
        /\ \A k \in 1..Len(records) :
               /\ records[k].lineNumber \in 1..Len(sourceLines)
               /\ \A f \in 1..Len(records[k].fields) :
                      records[k].fields[f].lineNumber = records[k].lineNumber
        /\ \A k \in 1..Len(issues) :
               /\ issues[k].lineNumber \in 1..Len(sourceLines)
               /\ \E r \in 1..Len(records) :
                      /\ records[r].lineNumber = issues[k].lineNumber
                      /\ records[r].code = issues[k].recordCode
        /\ \A a, b \in 1..Len(records) :
               a < b => records[a].lineNumber < records[b].lineNumber

\* A record with a field and an issue on line 2, after a dropped line.
C21_Witness ==
    /\ pc = "loop"
    /\ Len(sourceLines) = 2
    /\ \E line \in textLineOf(sourceLines[1]) : ~emits(line)
    /\ \E line \in textLineOf(sourceLines[2]) : emits(line)
    /\ Len(records) = 1
    /\ records[1].lineNumber = 2
    /\ Len(records[1].fields) = 1
    /\ Len(issues) = 1
    /\ issues[1].lineNumber = 2

----------------------------------------------------------------------------
(* The issues parseNtr returns                                             *)

\* C22: every issue in the list parseNtr returns, in a success and in a
\* failure, has a lineNumber >= 1 that is the number of a line of the source
\* text, a record code and a message that are not blank: it satisfies
\* parseIssueSchema.
C22_IssuesCarryALine ==
    pc = "done" =>
        \A k \in 1..Len(returned) :
            /\ returned[k].lineNumber \in 1..Len(split(source, "\n"))
            /\ parseIssueSchemaIssues(returned[k], k) = <<>>

\* C28: whenever the lexer and the record interpreter have left no issue of
\* severity error and the file id is not blank, the document parseNtr
\* assembles passes validateNtrFile and parseNtr returns a success: no
\* issue with the code VALIDATION is ever returned.
C28_ValidationNeverRejects ==
    pc = "done" =>
        /\ (trim(id) # <<>> /\ ~hasError(collectedIssues)) =>
               validation.ok /\ result.ok
        /\ trim(id) # <<>> =>
               \A k \in 1..Len(returned) :
                   returned[k].recordCode # CODE_VALIDATION

----------------------------------------------------------------------------
(* validateNtrFile on texts with and without surrounding white space       *)

\* tests/ntr/validation.spec.ts, "accepts a well-formed NTR file
\* structure": the document, without the white space around its texts.
TrimDocument ==
    [id       |-> <<"f", "1">>,
     metadata |-> [projectName |-> <<"D", " ", "P">>],
     elements |->
        <<[kind            |-> "RO",
           start           |-> pointAt(0),
           end             |-> [kind |-> "named", id |-> <<"N", "2">>],
           material        |-> <<"C", "S">>,
           nominalDiameter |-> DN100,
           loadCases       |-> <<<<"L", "1">>>>,
           reference       |-> <<"R", "1">>,
           pipeline        |-> <<"P">>,
           componentTag    |-> <<"C", "1">>]>>,
     issues   |-> <<>>]

\* The texts of the document that are set, in the order they are set in.
TrimFields ==
    <<"id", "projectName", "specification", "material", "nominalDiameter",
      "loadCase", "reference", "pipeline", "componentTag", "node">>

\* The texts they are set to: as they are to be, padded, blank and empty.
PlacedTexts ==
    {<<"A">>, <<" ", "\t", "A", " ", "B", "\n">>, <<" ">>, <<>>}

metadataOf(doc) == IF "metadata" \in DOMAIN doc THEN doc.metadata ELSE <<>>

placed(doc, field, text) ==
    CASE field = "id" -> with(doc, "id", text)
      [] field \in {"projectName", "specification"} ->
           with(doc, "metadata", with(metadataOf(doc), field, text))
      [] field = "loadCase" ->
           withElement(doc, 1, "loadCases", <<<<"L", "1">>, text>>)
      [] field = "node" ->
           withElement(doc, 1, "end", [kind |-> "named", id |-> text])
      [] OTHER -> withElement(doc, 1, field, text)

\* The sets of at most k placements, no two of the same field.
RECURSIVE placementsOf(_)
placementsOf(k) ==
    IF k = 0 THEN {{}}
    ELSE LET fewer == placementsOf(k - 1)
         IN  fewer
             \cup {chosen \cup {[field |-> TrimFields[f], text |-> text]} :
                      chosen \in fewer, f \in 1..Len(TrimFields),
                      text \in PlacedTexts}

Placements ==
    {chosen \in placementsOf(MaxChanges) :
        \A p, q \in chosen : p.field = q.field => p = q}

RECURSIVE placedFrom(_, _, _)
placedFrom(doc, chosen, f) ==
    IF f > Len(TrimFields) THEN doc
    ELSE LET here == {p \in chosen : p.field = TrimFields[f]}
         IN  IF here = {} THEN placedFrom(doc, chosen, f + 1)
             ELSE placedFrom(placed(doc, TrimFields[f],
                                    (CHOOSE p \in here : TRUE).text),
                             chosen, f + 1)

RECURSIVE omitted(_, _)
omitted(doc, keys) ==
    IF keys = {} THEN doc
    ELSE LET key == CHOOSE k \in keys : TRUE
         IN  omitted(without(doc, key), keys \ {key})

\* validateNtrFile is about to be called on the document, with some of its
\* texts set and with metadata and issues given or left out.
InitTrim ==
    /\ pc = "call"
    /\ id = <<" ">>
    /\ source = <<>>
    /\ records = Unset
    /\ issues = Unset
    /\ cursor = 0
    /\ elements = Unset
    /\ collectedIssues = Unset
    /\ nominalDiameters = Unset
    /\ result = Unset
    /\ validation = Unset
    /\ revalidation = Unset
    /\ fault = {}
    /\ ViewerIdle
    /\ AppIdle
    /\ \E chosen \in Placements, keys \in SUBSET {"metadata", "issues"} :
           candidate = placedFrom(omitted(TrimDocument, keys), chosen, 1)

SpecTrim == InitTrim /\ [][Validate]_vars

\* The keys of an element that hold a code.
CodeKeys ==
    {"material", "nominalDiameter", "mainNominalDiameter",
     "branchNominalDiameter", "inletDiameter", "outletDiameter", "reference",
     "pipeline", "componentTag"}

namedKeys(e) == {key \in PointKeys \cap DOMAIN e : e[key].kind = "named"}

\* The texts of a document that hold its id, a metadata field or a code.
codeTexts(doc) ==
    {doc.id}
    \cup {metadataOf(doc)[key] : key \in DOMAIN metadataOf(doc)}
    \cup UNION {{e[key] : key \in CodeKeys \cap DOMAIN e}
                \cup Range(e.loadCases)
                \cup {e[key].id : key \in namedKeys(e)} :
                    e \in Range(doc.elements)}

\* C23: validateNtrFile fails when the id, a metadata field or a code-like
\* field of the candidate is empty after trimming; on success the document
\* it returns has the id, every metadata field, every code-like field, every
\* load case and every named node's id of the candidate trimmed of the white
\* space around it, metadata {} when the candidate has none and issues []
\* when the candidate has none.
C23_TrimmedOrRejected ==
    pc = "validated" =>
        /\ validation.ok <=> \A text \in codeTexts(candidate) : trim(text) # <<>>
        /\ validation.ok =>
             LET doc == validation.value
             IN  /\ doc.id = trim(candidate.id)
                 /\ doc.metadata
                        = [key \in DOMAIN metadataOf(candidate) |->
                              trim(metadataOf(candidate)[key])]
                 /\ "metadata" \notin DOMAIN candidate => doc.metadata = <<>>
                 /\ "issues" \notin DOMAIN candidate => doc.issues = <<>>
                 /\ Len(doc.elements) = Len(candidate.elements)
                 /\ \A i \in 1..Len(doc.elements) :
                        LET e   == candidate.elements[i]
                            out == doc.elements[i]
                        IN  /\ \A key \in CodeKeys \cap DOMAIN e :
                                   out[key] = trim(e[key])
                            /\ out.loadCases
                                   = [k \in 1..Len(e.loadCases) |->
                                         trim(e.loadCases[k])]
                            /\ \A key \in namedKeys(e) :
                                   out[key] = [kind |-> "named",
                                               id   |-> trim(e[key].id)]

\* A padded code and a padded node are returned trimmed, and the metadata
\* and the issues left out of the candidate are returned empty.
C23_Witness ==
    /\ pc = "validated"
    /\ validation.ok
    /\ DOMAIN candidate = {"id", "elements"}
    /\ validation.value.metadata = <<>>
    /\ validation.value.issues = <<>>
    /\ candidate.elements[1].material = <<" ", "\t", "A", " ", "B", "\n">>
    /\ validation.value.elements[1].material = <<"A", " ", "B">>
    /\ candidate.elements[1].end.id = <<" ", "\t", "A", " ", "B", "\n">>
    /\ validation.value.elements[1].end.id = <<"A", " ", "B">>

----------------------------------------------------------------------------
(* parseNtr on records with one field written in many ways                 *)
(*                                                                         *)
(* A record is written from its code, its required fields with values      *)
(* their parsers accept, and one more field: given = <<>> leaves the field *)
(* out, given = <<text>> writes key=text.  A required field is written in  *)
(* its place, another one at the end.                                      *)

goodText(holds) ==
    CASE holds = "point"  -> quote(Origin)
      [] holds = "text"   -> CodeA
      [] holds = "number" -> <<"1", ".", "5">>

RECURSIVE fieldsWith(_, _, _, _)
fieldsWith(required, key, given, i) ==
    IF i > Len(required)
    THEN IF given = <<>> \/ \E k \in 1..Len(required) : required[k].key = key
         THEN <<>>
         ELSE <<keyValue(key, given[1])>>
    ELSE (IF required[i].key # key
          THEN <<keyValue(required[i].key, goodText(required[i].holds))>>
          ELSE IF given = <<>> THEN <<>>
          ELSE <<keyValue(key, given[1])>>)
         \o fieldsWith(required, key, given, i + 1)

recordWith(code, key, given) ==
    recordLine(code, fieldsWith(RequiredFields(code), key, given, 1))

\* The point fields of each record code and the property each becomes:
\* the requirePoint and optionalPoint calls of the constructors.
PointFields(code) ==
    CASE code = CODE_RO   -> <<[key |-> KEY_P1, name |-> "start"],
                               [key |-> KEY_P2, name |-> "end"]>>
      [] code = CODE_BOG  -> <<[key |-> KEY_P1, name |-> "start"],
                               [key |-> KEY_P2, name |-> "end"],
                               [key |-> KEY_PT, name |-> "tangent"]>>
      [] code = CODE_TEE  -> <<[key |-> KEY_PH1, name |-> "mainStart"],
                               [key |-> KEY_PH2, name |-> "mainEnd"],
                               [key |-> KEY_PA1, name |-> "branchStart"],
                               [key |-> KEY_PA2, name |-> "branchEnd"]>>
      [] code = CODE_ARM  -> <<[key |-> KEY_P1, name |-> "start"],
                               [key |-> KEY_P2, name |-> "end"],
                               [key |-> KEY_PM, name |-> "center"]>>
      [] code = CODE_PROF -> <<[key |-> KEY_P1, name |-> "start"],
                               [key |-> KEY_P2, name |-> "end"],
                               [key |-> KEY_RI, name |-> "axisDirection"]>>
      [] code = CODE_RED  -> <<[key |-> KEY_P1, name |-> "start"],
                               [key |-> KEY_P2, name |-> "end"]>>

\* Values of a point field that are not wrapped in quotes: names, texts that
\* look like numbers, texts with "=" and with quotes inside, and nothing.
UnquotedPointValues ==
    {Node1, Origin, <<"1", ".", "5">>, <<"n", "1">>, <<"a", "=", "b">>,
     <<"'", "N", " ", "1", "'", "x">>, <<"0", ",", "'", "0", ",", "0", "'">>,
     <<>>}

PointRecords ==
    UNION {{recordWith(code, PointFields(code)[k].key, <<text>>) :
               k \in 1..Len(PointFields(code)),
               text \in UnquotedPointValues \cup {quote(Corner)}} :
              code \in ElementCodes}

\* The optional numeric fields: GEW of ARM and S of DN.
NumericFields ==
    {[code |-> CODE_ARM, key |-> KEY_GEW], [code |-> CODE_DN, key |-> KEY_S]}

\* Texts that are a number as a whole, with the number.
NumberTexts ==
    {[text |-> <<"0">>,                value |-> makeNumber(1, 0, 0)],
     [text |-> <<"1", "2", ".", "5">>, value |-> makeNumber(1, 125, -1)],
     [text |-> <<"-", "1">>,           value |-> makeNumber(-1, 1, 0)],
     [text |-> <<"+", "2">>,           value |-> makeNumber(1, 2, 0)],
     [text |-> <<".", "5">>,           value |-> makeNumber(1, 5, -1)],
     [text |-> <<"1", "e", "3">>,      value |-> makeNumber(1, 1, 3)],
     [text |-> quote(<<"7">>),         value |-> makeNumber(1, 7, 0)]}

\* Texts no part of which is a number.
UnparsableTexts ==
    {<<>>, <<"x">>, <<"-">>, <<".">>, <<"e", "5">>, <<"N", "1">>,
     quote(<<"a", " ", "b">>), quote(<<>>)}

\* Texts that start with a number and go on.
PrefixedTexts == {<<"1", "2", "k", "g">>, <<"1", ",", "5">>}

NumericRecords ==
    {recordWith(f.code, f.key, given) :
        f \in NumericFields,
        given \in {<<>>}
                  \cup {<<n.text>> : n \in NumberTexts}
                  \cup {<<text>> : text \in UnparsableTexts \cup PrefixedTexts}}

\* The entries a LAST field is written from, and the texts of the field:
\* the entries with commas between them, in quotes, and without quotes when
\* no entry holds white space.
LastEntries == {<<"L", "1">>, <<" ", "L", "2", " ">>, <<"l", "3">>, <<>>, <<" ">>}

LastLists == UNION {[1..n -> LastEntries] : n \in 1..2}

lastTexts(entries) ==
    {quote(join(entries, <<",">>))}
    \cup (IF \E i \in 1..Len(entries) : Range(entries[i]) \cap WhiteSpace # {}
          THEN {}
          ELSE {join(entries, <<",">>)})

LastRecords ==
    {recordWith(code, KEY_LAST, given) :
        code \in ElementCodes,
        given \in {<<>>}
                  \cup UNION {{<<text>> : text \in lastTexts(entries)} :
                                 entries \in LastLists}}

\* The line before the record: none, a metadata record or an unknown code.
LinesBefore ==
    {<<>>,
     <<recordLine(CODE_GEN, <<keyValue(<<"T">>, <<"2", "0">>)>>)>>,
     <<recordLine(<<"X", "X">>, <<keyValue(<<"K">>, <<"1">>)>>)>>}

FieldSources ==
    {join(before \o <<line>>, <<"\n">>) :
        before \in LinesBefore,
        line \in PointRecords \cup NumericRecords \cup LastRecords}

InitFields ==
    /\ pc = "start"
    /\ id = <<"f", ".", "n", "t", "r">>
    /\ source \in FieldSources
    /\ records = Unset
    /\ issues = Unset
    /\ cursor = 0
    /\ elements = Unset
    /\ collectedIssues = Unset
    /\ nominalDiameters = Unset
    /\ result = Unset
    /\ candidate = Unset
    /\ validation = Unset
    /\ revalidation = Unset
    /\ fault = Unset
    /\ ViewerIdle
    /\ AppIdle

SpecFields == InitFields /\ [][Next]_vars

\* The record of the source, which is its last line, and the issues of that
\* line among those collected.
recordText == sourceLines[Len(sourceLines)]

recordIssues ==
    SelectSeq(collectedIssues, LAMBDA s : s.lineNumber = Len(sourceLines))

\* The loop of parseNtr over the records has ended.
interpreted == pc = "done" \/ (pc = "loop" /\ cursor > Len(records))

\* C24: for every point field of every record code, an unquoted value that
\* is not empty yields a named-node reference with the trimmed value as id
\* and no issue; an unquoted empty value yields exactly one error issue
\* "Missing coordinate value" and the record yields no element.
C24_UnquotedIsNamedNode ==
    interpreted =>
        \A code \in ElementCodes :
            \A k \in 1..Len(PointFields(code)), v \in UnquotedPointValues :
                LET field == PointFields(code)[k]
                IN  recordText = recordWith(code, field.key, <<v>>) =>
                        IF v = <<>>
                        THEN /\ elements = <<>>
                             /\ recordIssues
                                    = <<createIssue(code, Len(sourceLines),
                                            "Missing coordinate value for",
                                            field.key, "error")>>
                        ELSE /\ Len(elements) = 1
                             /\ elements[1][field.name]
                                    = [kind |-> "named", id |-> trim(v)]
                             /\ recordIssues = <<>>
                             /\ pc = "done" =>
                                    /\ result.ok
                                    /\ result.value.file.elements[1][field.name]
                                           = [kind |-> "named", id |-> trim(v)]

\* The axis direction of a profile written 0,0,0 without quotes is the node
\* named 0,0,0 in the document parseNtr returns.
C24_Witness ==
    /\ pc = "done"
    /\ recordText = recordWith(CODE_PROF, KEY_RI, <<Origin>>)
    /\ result.ok
    /\ result.value.issues = <<>>
    /\ result.value.file.elements[1].axisDirection
           = [kind |-> "named", id |-> Origin]

\* What the record's optional numeric field has become: the weight of the
\* element or the thickness of the definition (length 0 when the property
\* is absent), or "none" when the record has yielded nothing.
numericOf(f) ==
    IF f.code = CODE_ARM
    THEN IF Len(elements) # 1 THEN "none"
         ELSE IF "weight" \in DOMAIN elements[1] THEN <<elements[1].weight>>
         ELSE <<>>
    ELSE IF CodeA \notin DOMAIN nominalDiameters THEN "none"
         ELSE IF "thickness" \in DOMAIN nominalDiameters[CodeA]
         THEN <<nominalDiameters[CodeA].thickness>>
         ELSE <<>>

\* C25: for GEW of ARM and S of DN: when the field is absent the value is
\* absent and there is no issue; when its whole text is a number the value
\* is that number; when no part of its text is a number there is exactly
\* one issue, an error, and the record yields no element and no definition.
C25_OptionalNumbers ==
    interpreted =>
        \A f \in NumericFields :
            /\ recordText = recordWith(f.code, f.key, <<>>) =>
                   numericOf(f) = <<>> /\ recordIssues = <<>>
            /\ \A n \in NumberTexts :
                   recordText = recordWith(f.code, f.key, <<n.text>>) =>
                       numericOf(f) = <<n.value>> /\ recordIssues = <<>>
            /\ \A text \in UnparsableTexts :
                   recordText = recordWith(f.code, f.key, <<text>>) =>
                       /\ numericOf(f) = "none"
                       /\ elements = <<>>
                       /\ DOMAIN nominalDiameters = {}
                       /\ Len(recordIssues) = 1
                       /\ recordIssues[1].severity = "error"
                       /\ recordIssues[1].recordCode = f.code

\* An ARM record without GEW, after a record that leaves a warning, has
\* given an element without weight.
C25_Witness ==
    /\ pc = "done"
    /\ Len(sourceLines) = 2
    /\ recordText = recordWith(CODE_ARM, KEY_GEW, <<>>)
    /\ result.ok
    /\ Len(result.value.issues) = 1
    /\ "weight" \notin DOMAIN result.value.file.elements[1]

\* The entries of a LAST field, each trimmed.
trimmedEntries(entries) == [i \in 1..Len(entries) |-> trim(entries[i])]

\* The load cases of the record's element are `cases`, in the element
\* parseNtr has built and in the document it returns.
loadCasesAre(cases) ==
    /\ Len(elements) = 1
    /\ "loadCases" \in DOMAIN elements[1]
    /\ elements[1].loadCases = cases
    /\ pc = "done" =>
           /\ result.ok
           /\ result.value.file.elements[1].loadCases = cases

\* Every element has loadCases: empty when the LAST field is absent, and
\* otherwise the entries of LAST between the commas, in their order, each
\* trimmed.
C26_EveryEntryIsALoadCase ==
    interpreted =>
        \A code \in ElementCodes :
            /\ recordText = recordWith(code, KEY_LAST, <<>>) =>
                   loadCasesAre(<<>>)
            /\ \A entries \in LastLists :
                   \A text \in lastTexts(entries) :
                       recordText = recordWith(code, KEY_LAST, <<text>>) =>
                           loadCasesAre(trimmedEntries(entries))

\* C26: every element parseNtr builds has loadCases as a list: empty when
\* the LAST field is absent, and otherwise the entries of LAST between the
\* commas that are not empty after trimming, in their order, each trimmed;
\* the list is empty when LAST holds no such entry.
C26_LoadCasesAList ==
    interpreted =>
        /\ \A i \in 1..Len(elements) :
               /\ "loadCases" \in DOMAIN elements[i]
               /\ DOMAIN elements[i].loadCases
                      = 1..Len(elements[i].loadCases)
        /\ \A code \in ElementCodes :
               /\ recordText = recordWith(code, KEY_LAST, <<>>) =>
                      loadCasesAre(<<>>)
               /\ \A entries \in LastLists :
                      \A text \in lastTexts(entries) :
                          recordText = recordWith(code, KEY_LAST, <<text>>) =>
                              loadCasesAre(
                                  SelectSeq(trimmedEntries(entries),
                                            LAMBDA entry : entry # <<>>))

\* LAST=' L2 ,' has given the one load case L2.
C26_Witness ==
    /\ pc = "done"
    /\ recordText = recordWith(CODE_TEE, KEY_LAST,
                               <<quote(<<" ", "L", "2", " ", ",">>)>>)
    /\ result.ok
    /\ result.value.file.elements[1].loadCases = <<<<"L", "2">>>>

----------------------------------------------------------------------------
(* parseNtr and buildSceneGraph as functions of their arguments            *)
(*                                                                         *)
(* The application calls both in one handler, loadFileFromContents; here   *)
(* each is the composition of the steps modelled above.                    *)

\* case "RO" ... "RED": the collections after the constructor's result.
afterElement(st, built) ==
    IF built.ok
    THEN [st EXCEPT !.elements = Append(@, built.value)]
    ELSE [st EXCEPT !.collectedIssues = Append(@, built.error)]

\* case "DN": the collections after parseNominalDiameterRecord's result.
afterDefinition(st, record, entry) ==
    IF ~entry.ok
    THEN [st EXCEPT !.collectedIssues = Append(@, entry.error)]
    ELSE IF entry.value.code \in DOMAIN st.nominalDiameters
    THEN [st EXCEPT !.collectedIssues =
             Append(@, createIssue(record.code, record.lineNumber,
                                   "Duplicate DN definition ignored",
                                   entry.value.code, "warning"))]
    ELSE [st EXCEPT !.nominalDiameters =
             @ @@ (entry.value.code :> entry.value.definition)]

\* One turn of parseNtr's loop over the records: the three collections
\* after the record.
interpretRecord(st, record) ==
    IF record.code \in ElementCodes
    THEN afterElement(st, parseElementRecord(record))
    ELSE IF record.code = CODE_DN
    THEN afterDefinition(st, record, parseNominalDiameterRecord(record))
    ELSE IF record.code \in MetadataCodes THEN st
    ELSE [st EXCEPT !.collectedIssues =
             Append(@, createIssue(record.code, record.lineNumber,
                                   "Unsupported record code", record.code,
                                   "warning"))]

RECURSIVE interpretFrom(_, _, _)
interpretFrom(list, i, st) ==
    IF i > Len(list) THEN st
    ELSE interpretFrom(list, i + 1, interpretRecord(st, list[i]))

\* parseNtr's return after validateNtrFile.
returnValidated(st, validated) ==
    IF ~validated.ok
    THEN err(st.collectedIssues \o validationIssues(validated.error))
    ELSE ok([file |-> validated.value, issues |-> st.collectedIssues])

\* parseNtr after its loop.
returnFrom(fileId, st) ==
    IF hasError(st.collectedIssues) THEN err(st.collectedIssues)
    ELSE returnValidated(
             st,
             validateNtrFile(assembleFile(fileId, st.nominalDiameters,
                                          st.elements, st.collectedIssues)))

\* parseNtr after lexNtr.
interpretAll(fileId, lexed) ==
    returnFrom(fileId,
               interpretFrom(lexed.records, 1,
                             [elements         |-> <<>>,
                              collectedIssues  |-> lexed.issues,
                              nominalDiameters |-> <<>>]))

parseNtr(fileId, src) == interpretAll(fileId, lexNtr(src))

\* resolvePoint's call of builder.add.
addResolved(box, resolved) ==
    IF resolved.kind = "coordinate"
    THEN add(box, resolved.scenePosition)
    ELSE box

\* The builder after the resolvePoint calls on the points from k on.
RECURSIVE addPoints(_, _, _)
addPoints(box, list, k) ==
    IF k > Len(list) THEN box
    ELSE addPoints(addResolved(box, resolvePoint(list[k])), list, k + 1)

\* The builder after the converters of the elements from i on.
RECURSIVE addElements(_, _, _)
addElements(box, list, i) ==
    IF i > Len(list) THEN box
    ELSE addElements(addPoints(box, pointsOf(list[i]), 1), list, i + 1)

\* The converter of one element, on its points.
convertOn(element, sceneId, list, lookup) ==
    convertElement(element, sceneId,
                   [k \in 1..Len(list) |-> resolvePoint(list[k])], lookup)

buildSceneGraph(data) ==
    [elements |->
        [i \in 1..Len(data.elements) |->
            convertOn(data.elements[i], elementId(i - 1),
                      pointsOf(data.elements[i]),
                      data.definitions.nominalDiameters)],
     bounds   |-> value(addElements([min |-> <<>>, max |-> <<>>],
                                    data.elements, 1))]

\* const graph = buildSceneGraph(parseResult.value.file), taken step by
\* step: the call is entered with the document parseNtr has returned.
BuildSceneGraph ==
    /\ pc = "done"
    /\ result.ok
    /\ file' = result.value.file
    /\ elementIndex' = 0
    /\ points' = <<>>
    /\ min' = <<>>
    /\ max' = <<>>
    /\ sceneElements' = <<>>
    /\ pc' = "convert"
    /\ UNCHANGED <<id, source, records, issues, cursor, elements,
                   collectedIssues, nominalDiameters, result, candidate,
                   validation, revalidation, fault, graph, sceneOffset, bend,
                   arc, meshes, appVars>>

NextMove ==
    \/ Next
    \/ BuildSceneGraph
    \/ ResolvePoint
    \/ ConvertElement
    \/ ReturnGraph

----------------------------------------------------------------------------
(* DN records at every line position                                       *)

\* Definitions of two codes, one of them given twice.
MoveDefinitions ==
    {recordLine(CODE_DN, <<keyValue(KEY_NAME, CodeA),
                           keyValue(KEY_DA, <<"1", "6", "8", ".", "3">>)>>),
     recordLine(CODE_DN, <<keyValue(KEY_NAME, quote(<<" ", "A", " ">>)),
                           keyValue(KEY_DA, <<"4">>),
                           keyValue(KEY_S, <<"2">>)>>),
     recordLine(CODE_DN, <<keyValue(KEY_NAME, CodeB),
                           keyValue(KEY_DA, <<"3">>)>>)}

\* The elements that refer to the codes, and one line for each other
\* branch of parseNtr's loop.
MoveOthers ==
    {recordLine(CODE_RO, <<keyValue(KEY_P1, quote(Origin)),
                           keyValue(KEY_P2, quote(Along)),
                           keyValue(KEY_DN, CodeA)>>),
     recordLine(CODE_RED, <<keyValue(KEY_P1, quote(Origin)),
                            keyValue(KEY_P2, Node1),
                            keyValue(KEY_DN1, CodeA),
                            keyValue(KEY_DN2, CodeB)>>),
     recordLine(CODE_GEN, <<keyValue(<<"T">>, <<"2", "0">>)>>),
     recordLine(<<"X", "X">>, <<keyValue(<<"K">>, <<"1">>)>>),
     recordLine(CODE_RO, <<keyValue(KEY_P1, quote(Origin)),
                           keyValue(KEY_DN, CodeA)>>)}

MoveLines == MoveDefinitions \cup MoveOthers

\* The texts of at most MaxLines + 1 lines with a DN record among them.
MoveSources ==
    {join(lines, <<"\n">>) :
        lines \in {l \in UNION {[1..n -> MoveLines] : n \in 1..(MaxLines + 1)} :
                       \E i \in 1..Len(l) : l[i] \in MoveDefinitions}}

InitMove ==
    /\ pc = "start"
    /\ id = <<"f", ".", "n", "t", "r">>
    /\ source \in MoveSources
    /\ records = Unset
    /\ issues = Unset
    /\ cursor = 0
    /\ elements = Unset
    /\ collectedIssues = Unset
    /\ nominalDiameters = Unset
    /\ result = Unset
    /\ candidate = Unset
    /\ validation = Unset
    /\ revalidation = Unset
    /\ fault = Unset
    /\ ViewerIdle
    /\ AppIdle

SpecMove == InitMove /\ [][NextMove]_vars

\* The codes the DN records of a text define, one entry for each record
\* parseNominalDiameterRecord accepts.
definedCodes(src) ==
    LET list  == lexNtr(src).records
        codes == [i \in 1..Len(list) |->
                     IF list[i].code = CODE_DN
                        /\ parseNominalDiameterRecord(list[i]).ok
                     THEN <<parseNominalDiameterRecord(list[i]).value.code>>
                     ELSE <<>>]
    IN  codes

definedAtMostOnce(src) ==
    LET codes == definedCodes(src)
    IN  \A i, j \in 1..Len(codes) :
            (i # j /\ codes[i] # <<>>) => codes[i] # codes[j]

isDefinition(line) ==
    LET lexed == lexNtr(line).records
    IN  lexed # <<>> /\ lexed[1].code = CODE_DN

\* The lines with the one at `from` taken out and put in at `to`.
moved(lines, from, to) ==
    LET rest == [i \in 1..(Len(lines) - 1) |->
                    IF i < from THEN lines[i] ELSE lines[i + 1]]
    IN  [i \in 1..Len(lines) |->
            IF i < to THEN rest[i]
            ELSE IF i = to THEN lines[from]
            ELSE rest[i - 1]]

\* The texts a source becomes when one of its DN records goes to another
\* line.
movedSources(src) ==
    LET lines == split(src, "\n")
    IN  {join(moved(lines, from, to), <<"\n">>) :
            from \in {i \in 1..Len(lines) : isDefinition(lines[i])},
            to \in 1..Len(lines)}

OuterKeys ==
    {"outerDiameter", "mainOuterDiameter", "branchOuterDiameter",
     "inletOuterDiameter", "outletOuterDiameter"}

\* The outer diameters of the scene elements, in the order of the elements.
outerDiameters(list) ==
    [i \in 1..Len(list) |->
        [key \in DOMAIN list[i] \cap OuterKeys |-> list[i][key]]]

\* C29: when every diameter code of a text is defined at most once, the
\* text with one of its DN records moved to any line is parsed to the same
\* table, and its scene graph has the same outer diameter on every element.
C29_DefinitionsAtAnyLine ==
    /\ (pc = "done" /\ definedAtMostOnce(source)) =>
           \A text \in movedSources(source) :
               \E other \in {parseNtr(id, text)} :
                   /\ other.ok = result.ok
                   /\ other.ok =>
                          other.value.file.definitions.nominalDiameters
                          = result.value.file.definitions.nominalDiameters
    /\ (pc = "built" /\ definedAtMostOnce(source)) =>
           \A text \in movedSources(source) :
               outerDiameters(
                   buildSceneGraph(parseNtr(id, text).value.file).elements)
               = outerDiameters(graph.elements)

\* A pipe whose code is defined on the line after it has the diameter of
\* that definition.
C29_Witness ==
    /\ pc = "built"
    /\ Len(split(source, "\n")) = 2
    /\ isDefinition(split(source, "\n")[2])
    /\ Len(graph.elements) = 1
    /\ graph.elements[1].kind = "RO"
    /\ CodeA \in DOMAIN file.definitions.nominalDiameters
    /\ graph.elements[1].outerDiameter
       = <<file.definitions.nominalDiameters[CodeA].outsideDiameter>>

----------------------------------------------------------------------------
(* app/telemetry.ts                                                        *)
(*                                                                         *)
(* `call` keeps, of the calls made so far: the name of the last one (op),  *)
(* what the last initializeTelemetry got from getItem (read) and returned  *)
(* (returned), the argument of the last setTelemetryEnabled (requested)    *)
(* and whether its setItem went through (wrote).                           *)

\* Most telemetry events written to the console in a run.
MaxEvents == 2

\* What localStorage may hold at STORAGE_KEY: nothing, the two texts
\* setTelemetryEnabled writes, and a text it never writes.
StoredValues == {<<>>, <<"1">>, <<"0">>, <<"true">>}

\* recordTelemetry(event, payload): the number of events on the console
\* after the call.
recordTelemetry(count) == IF enabled THEN count + 1 ELSE count

\* initializeTelemetry, were everything but a stored "0" to enable it.
InitializeTelemetryOptOut ==
    /\ enabled' = (storageUp /\ stored # <<"0">>)
    /\ call' = [call EXCEPT !.op = "initialize",
                            !.read = <<[threw |-> ~storageUp,
                                        found |-> stored]>>,
                            !.returned = <<enabled'>>]
    /\ UNCHANGED <<parserVars, viewerVars, state, lastFile, watched, disk,
                   events, reads, applied, edits, started, stored, storageUp,
                   emitted>>

\* initializeTelemetry(): getItem throws when the storage cannot be
\* accessed.
InitializeTelemetry ==
    /\ enabled' = (storageUp /\ stored = <<"1">>)
    /\ call' = [call EXCEPT !.op = "initialize",
                            !.read = <<[threw |-> ~storageUp,
                                        found |-> stored]>>,
                            !.returned = <<enabled'>>]
    /\ UNCHANGED <<parserVars, viewerVars, state, lastFile, watched, disk,
                   events, reads, applied, edits, started, stored, storageUp,
                   emitted>>

\* setTelemetryEnabled(value): a setItem that throws is logged and nothing
\* more.
SetTelemetryEnabled ==
    \E wanted \in BOOLEAN :
        /\ enabled' = wanted
        /\ stored' = IF storageUp
                     THEN <<IF wanted THEN "1" ELSE "0">>
                     ELSE stored
        /\ call' = [call EXCEPT !.op = "set",
                                !.requested = <<wanted>>,
                                !.wrote = <<storageUp>>]
        /\ UNCHANGED <<parserVars, viewerVars, state, lastFile, watched,
                       disk, events, reads, applied, edits, started,
                       storageUp, emitted>>

\* recordTelemetry(event, payload)
RecordTelemetry ==
    /\ enabled => emitted < MaxEvents
    /\ emitted' = recordTelemetry(emitted)
    /\ call' = [call EXCEPT !.op = "record"]
    /\ UNCHANGED <<parserVars, viewerVars, state, lastFile, watched, disk,
                   events, reads, applied, edits, started, enabled, stored,
                   storageUp>>

\* The environment: access to localStorage is granted or withdrawn.
StorageChange ==
    /\ storageUp' = ~storageUp
    /\ UNCHANGED <<parserVars, viewerVars, state, lastFile, watched, disk,
                   events, reads, applied, edits, started, enabled, stored,
                   emitted, call>>

NextTelemetry ==
    \/ InitializeTelemetry
    \/ SetTelemetryEnabled
    \/ RecordTelemetry
    \/ StorageChange

\* The module is loaded: no file is parsed or shown, and the browser's
\* storage holds whatever an earlier session has left.
InitTelemetry ==
    /\ pc = "app"
    /\ id = Unset
    /\ source = Unset
    /\ records = Unset
    /\ issues = Unset
    /\ cursor = 0
    /\ elements = Unset
    /\ collectedIssues = Unset
    /\ nominalDiameters = Unset
    /\ result = Unset
    /\ candidate = Unset
    /\ validation = Unset
    /\ revalidation = Unset
    /\ fault = Unset
    /\ ViewerIdle
    /\ state = [filePath |-> <<>>, graph |-> <<>>, issues |-> <<>>]
    /\ lastFile = <<>>
    /\ watched = <<>>
    /\ disk = <<>>
    /\ events = {}
    /\ reads = {}
    /\ applied = <<>>
    /\ edits = 0
    /\ started = FALSE
    /\ enabled = FALSE
    /\ stored \in StoredValues
    /\ storageUp \in BOOLEAN
    /\ emitted = 0
    /\ call = [op |-> "none", read |-> <<>>, returned |-> <<>>,
               requested |-> <<>>, wrote |-> <<>>]

SpecTelemetry == InitTelemetry /\ [][NextTelemetry]_vars

\* Telemetry is off until a call turns it on, off after an
\* initializeTelemetry that found no "1", and nothing is emitted while it
\* is off.
offByDefault ==
    /\ (call.returned = <<>> /\ call.requested = <<>>) => ~enabled
    /\ call.op = "initialize" =>
           /\ call.returned = <<enabled>>
           /\ (call.read[1].threw \/ call.read[1].found # <<"1">>) =>
                  ~enabled

emitsOnlyWhileEnabled == (emitted' # emitted) => enabled

----------------------------------------------------------------------------
(* main.ts: opening, restoring and reloading a file                        *)
(*                                                                         *)
(* Each handler is one step up to its await and one step from the moment   *)
(* the awaited promise resolves.  handleOpenFile does nothing before its   *)
(* await, so it is the second step only.  The invoke of startFileWatch     *)
(* and stopFileWatch takes effect at once: the order most in the code's    *)
(* favour.                                                                 *)

\* Most changes made to the files in a run.
MaxEdits == 2

PathA == <<"/", "a">>
PathB == <<"/", "b">>
Paths == {PathA, PathB}

\* A file that loads and one that fails.
PipeText ==
    recordLine(CODE_RO, <<keyValue(KEY_P1, quote(Origin)),
                          keyValue(KEY_P2, quote(Along)),
                          keyValue(KEY_DN, CodeA)>>)
FailingText ==
    recordLine(CODE_RO, <<keyValue(KEY_P1, quote(Origin)),
                          keyValue(KEY_DN, CodeA)>>)
FileTexts == {PipeText, FailingText}

\* normalizePath.  The paths of the model are in lower case, so the
\* lower-casing on a Windows host leaves them as they are.
normalizePath(path) ==
    LET unified == [i \in 1..Len(path) |->
                       IF path[i] = "\\" THEN "/" ELSE path[i]]
    IN  IF startsWith(unified, <<"/", "/", "?", "/", "U", "N", "C", "/">>)
        THEN <<"/", "/">> \o SubSeq(unified, 9, Len(unified))
        ELSE IF startsWith(unified, <<"/", "/", "?", "/">>)
        THEN SubSeq(unified, 5, Len(unified))
        ELSE unified

pathsMatch(a, b) == normalizePath(a) = normalizePath(b)

\* The three accessors of the remembered file: each catches the error of
\* a storage that cannot be accessed.
rememberLastFile(path) == IF storageUp THEN <<path>> ELSE lastFile
forgetLastFile == IF storageUp THEN <<>> ELSE lastFile
getRememberedFile == IF storageUp THEN lastFile ELSE <<>>

\* resetViewerState: the state it assigns.
resetViewerState == [filePath |-> <<>>, graph |-> <<>>, issues |-> <<>>]

\* loadFileFromContents after parseNtr: what it assigns and returns.
loadParsed(path, method, parseResult) ==
    IF ~parseResult.ok
    THEN [state    |-> [filePath |-> <<path>>,
                        graph    |-> <<>>,
                        issues   |-> parseResult.error],
          emitted  |-> recordTelemetry(emitted),
          lastFile |-> IF method = "restore" THEN forgetLastFile
                       ELSE lastFile,
          watched  |-> IF method = "restore" THEN <<>> ELSE watched,
          returned |-> FALSE]
    ELSE [state    |-> [filePath |-> <<path>>,
                        graph    |->
                            <<buildSceneGraph(parseResult.value.file)>>,
                        issues   |-> parseResult.value.issues],
          emitted  |-> recordTelemetry(emitted),
          lastFile |-> rememberLastFile(path),
          watched  |-> IF method # "watch" THEN <<path>> ELSE watched,
          returned |-> TRUE]

\* loadFileFromContents(path, contents, source)
loadFileFromContents(path, contents, method) ==
    loadParsed(path, method, parseNtr(path, contents))

\* A handler calls loadFileFromContents.
calls(path, contents, method) ==
    /\ enabled => emitted < MaxEvents
    /\ \E after \in {loadFileFromContents(path, contents, method)} :
           /\ state' = after.state
           /\ emitted' = after.emitted
           /\ lastFile' = after.lastFile
           /\ watched' = after.watched
    /\ applied' = <<[path   |-> path,
                     source |-> method,
                     shown  |-> state.filePath]>>
    /\ call' = [call EXCEPT !.op = "record"]

\* restoreLastFile, up to its await.
RestoreLastFile ==
    /\ ~started
    /\ started' = TRUE
    /\ reads' = IF getRememberedFile = <<>> THEN reads
                ELSE reads \cup {[source |-> "restore",
                                  path   |-> getRememberedFile[1]]}
    /\ UNCHANGED <<parserVars, viewerVars, state, lastFile, watched, disk,
                   events, applied, edits, enabled, stored, storageUp,
                   emitted, call>>

\* restoreLastFile, from the moment loadNtrFileAtPath resolves.
CompleteRestore ==
    \E read \in reads :
        /\ read.source = "restore"
        /\ reads' = reads \ {read}
        /\ IF disk[read.path] # <<>>
           THEN calls(read.path, disk[read.path][1], "restore")
           ELSE /\ lastFile' = forgetLastFile
                /\ state' = resetViewerState
                /\ watched' = <<>>
                /\ UNCHANGED <<applied, emitted, call>>
        /\ UNCHANGED <<parserVars, viewerVars, disk, events, edits, started,
                       enabled, stored, storageUp>>

\* handleOpenFile, from the moment openNtrFile resolves with the file the
\* user has picked.  A cancelled dialog and a failed read change nothing.
HandleOpenFile ==
    \E path \in Paths :
        /\ disk[path] # <<>>
        /\ calls(path, disk[path][1], "manual")
        /\ UNCHANGED <<parserVars, viewerVars, disk, events, reads, edits,
                       started, enabled, stored, storageUp>>

\* The environment: a file is written or deleted, and the watcher emits
\* ntr-file-changed when it is set on that file.
FileChanged ==
    \E path \in Paths, now \in {<<>>} \cup {<<text>> : text \in FileTexts} :
        /\ edits < MaxEdits
        /\ now # disk[path]
        /\ disk' = [disk EXCEPT ![path] = now]
        /\ edits' = edits + 1
        /\ events' = IF watched # <<>> /\ pathsMatch(watched[1], path)
                     THEN events \cup {path}
                     ELSE events
        /\ UNCHANGED <<parserVars, viewerVars, state, lastFile, watched,
                       reads, applied, started, enabled, stored, storageUp,
                       emitted, call>>

\* handleFileChangeEvent, up to its await.
HandleFileChangeEvent ==
    \E path \in events :
        /\ events' = events \ {path}
        /\ reads' = IF state.filePath = <<>>
                       \/ ~pathsMatch(state.filePath[1], path)
                    THEN reads
                    ELSE reads \cup {[source |-> "watch", path |-> path]}
        /\ UNCHANGED <<parserVars, viewerVars, state, lastFile, watched,
                       disk, applied, edits, started, enabled, stored,
                       storageUp, emitted, call>>

\* handleFileChangeEvent, from the moment loadNtrFileAtPath resolves.
CompleteReload ==
    \E read \in reads :
        /\ read.source = "watch"
        /\ reads' = reads \ {read}
        /\ IF disk[read.path] # <<>>
           THEN calls(read.path, disk[read.path][1], "watch")
           ELSE UNCHANGED <<state, lastFile, watched, applied, emitted,
                            call>>
        /\ UNCHANGED <<parserVars, viewerVars, disk, events, edits, started,
                       enabled, stored, storageUp>>

NextApp ==
    \/ RestoreLastFile
    \/ CompleteRestore
    \/ HandleOpenFile
    \/ FileChanged
    \/ HandleFileChangeEvent
    \/ CompleteReload

\* DOMContentLoaded: nothing is shown or watched; the files exist, and an
\* earlier session may have remembered one of them.
InitApp ==
    /\ pc = "app"
    /\ id = Unset
    /\ source = Unset
    /\ records = Unset
    /\ issues = Unset
    /\ cursor = 0
    /\ elements = Unset
    /\ collectedIssues = Unset
    /\ nominalDiameters = Unset
    /\ result = Unset
    /\ candidate = Unset
    /\ validation = Unset
    /\ revalidation = Unset
    /\ fault = Unset
    /\ ViewerIdle
    /\ state = resetViewerState
    /\ lastFile \in {<<>>, <<PathA>>}
    /\ watched = <<>>
    /\ disk \in [Paths -> {<<text>> : text \in FileTexts}]
    /\ events = {}
    /\ reads = {}
    /\ applied = <<>>
    /\ edits = 0
    /\ started = FALSE
    /\ enabled = FALSE
    /\ stored = <<>>
    /\ storageUp = TRUE
    /\ emitted = 0
    /\ call = [op |-> "none", read |-> <<>>, returned |-> <<>>,
               requested |-> <<>>, wrote |-> <<>>]

SpecApp == InitApp /\ [][NextApp]_vars

\* C30: whenever the contents of a watch-triggered reload are applied, the
\* reloaded path is the path state.filePath held at that moment, and the
\* watcher is set on the file that is shown.
C30_ReloadNeverDisplaces ==
    /\ (applied # <<>> /\ applied[1].source = "watch") =>
           /\ applied[1].shown # <<>>
           /\ pathsMatch(applied[1].shown[1], applied[1].path)
    /\ state.filePath # <<>> =>
           /\ watched # <<>>
           /\ pathsMatch(watched[1], state.filePath[1])

============================================================================
